---- MODULE Spec2Model ----
(***************************************************************************)
(* Model of the Lancom BLE gateway integration                             *)
(* (custom_components/lancom_ble/__init__.py and sensor.py).               *)
(*                                                                         *)
(* Text (MAC addresses, identifiers, device names) is modelled as          *)
(* sequences of one-character strings, so that normalisation, identifier   *)
(* derivation and name cleaning are computed the way the code computes     *)
(* them.  None and the empty string are both the empty sequence: the code  *)
(* only ever tests them with "not x" / "x or ''".                          *)
(***************************************************************************)
EXTENDS Integers, Sequences, FiniteSets, TLC

(***************************************************************************)
(* Characters and the string primitives of Python the code relies on.      *)
(***************************************************************************)
LowerLetters ==
  <<"a","b","c","d","e","f","g","h","i","j","k","l","m",
    "n","o","p","q","r","s","t","u","v","w","x","y","z">>

UpperLetters ==
  <<"A","B","C","D","E","F","G","H","I","J","K","L","M",
    "N","O","P","Q","R","S","T","U","V","W","X","Y","Z">>

HexChars ==
  {"0","1","2","3","4","5","6","7","8","9",
   "a","b","c","d","e","f","A","B","C","D","E","F"}

SpaceChars == {" ", "\t", "\n"}

\* str.upper() on one character
upper_char(c) ==
  IF \E i \in 1..26 : LowerLetters[i] = c
    THEN UpperLetters[CHOOSE i \in 1..26 : LowerLetters[i] = c]
    ELSE c

\* str.lower() on one character
lower_char(c) ==
  IF \E i \in 1..26 : UpperLetters[i] = c
    THEN LowerLetters[CHOOSE i \in 1..26 : UpperLetters[i] = c]
    ELSE c

upper(s) == [i \in 1..Len(s) |-> upper_char(s[i])]

lower(s) == [i \in 1..Len(s) |-> lower_char(s[i])]

\* s[i..j] (1-based, inclusive); empty when j < i
Slice(s, i, j) == IF j < i THEN <<>> ELSE SubSeq(s, i, j)

startswith(s, p) ==
  /\ Len(p) <= Len(s)
  /\ \A i \in 1..Len(p) : s[i] = p[i]

endswith(s, p) ==
  /\ Len(p) <= Len(s)
  /\ \A i \in 1..Len(p) : s[Len(s) - Len(p) + i] = p[i]

\* str.strip(): drop leading and trailing whitespace
strip(s) ==
  LET keep == {i \in 1..Len(s) : s[i] \notin SpaceChars}
  IN  IF keep = {} THEN <<>>
      ELSE LET lo == CHOOSE i \in keep : \A j \in keep : i <= j
               hi == CHOOSE i \in keep : \A j \in keep : j <= i
           IN  SubSeq(s, lo, hi)

\* str.replace(old, new) for a one-character old and new
replace_char(s, old, new) ==
  [i \in 1..Len(s) |-> IF s[i] = old THEN new ELSE s[i]]

\* str.replace(p, ""): remove every (leftmost, non-overlapping) occurrence
RECURSIVE remove_all(_, _)
remove_all(s, p) ==
  IF s = <<>> THEN <<>>
  ELSE IF startswith(s, p) THEN remove_all(Slice(s, Len(p) + 1, Len(s)), p)
  ELSE <<Head(s)>> \o remove_all(Tail(s), p)

\* str.split(sep) for a one-character separator: always at least one part
RECURSIVE split(_, _)
split(s, sep) ==
  IF \A i \in 1..Len(s) : s[i] # sep THEN <<s>>
  ELSE LET k == CHOOSE i \in 1..Len(s) :
                  s[i] = sep /\ \A j \in 1..(i - 1) : s[j] # sep
       IN  <<Slice(s, 1, k - 1)>> \o split(Slice(s, k + 1, Len(s)), sep)

\* sep.join(parts)
RECURSIVE join(_, _)
join(parts, sep) ==
  IF parts = <<>> THEN <<>>
  ELSE IF Len(parts) = 1 THEN parts[1]
  ELSE parts[1] \o sep \o join(Tail(parts), sep)

\* the subsequence of the characters of s that satisfy Keep
RECURSIVE filter_chars(_, _)
filter_chars(s, keep) ==
  IF s = <<>> THEN <<>>
  ELSE IF Head(s) \in keep THEN <<Head(s)>> \o filter_chars(Tail(s), keep)
  ELSE filter_chars(Tail(s), keep)

(***************************************************************************)
(* Program constants (text).                                               *)
(***************************************************************************)
\* const.py: DOMAIN = "lancom_ble"
DOMAIN_ID == "lancom_ble"

\* "lancom_ble_"
IdentPrefix == <<"l","a","n","c","o","m","_","b","l","e","_">>

\* "Lancom AP"
BaseLabel == <<"L","a","n","c","o","m"," ","A","P">>

\* number of hex digits of a MAC address
MacHexLen == 12

\* number of groups of an identifier / octets of a MAC
MacGroups == 6

(***************************************************************************)
(* Helpers of __init__.py.                                                 *)
(***************************************************************************)
\* re.sub(r"[^0-9A-Fa-f]", "", raw), grouped in pairs and joined by ":"
pair_up(s) ==
  [i \in 1..(Len(s) + Len(s) \div 2 - 1) |->
     IF i % 3 = 0 THEN ":" ELSE s[i - (i \div 3)]]

\* the mutant of format_ble_mac that removes the separators and keeps the case
format_keep_case(raw) ==
  IF raw = <<>> THEN raw
  ELSE LET s == filter_chars(raw, HexChars)
       IN  IF Len(s) # MacHexLen THEN upper(raw)
           ELSE pair_up(s)

format_ble_mac(raw) ==
  IF raw = <<>> THEN raw
  ELSE LET s == filter_chars(raw, HexChars)
       IN  IF Len(s) # MacHexLen THEN upper(raw)
           ELSE upper(pair_up(s))

identifier_for(mac_upper) ==
  IdentPrefix \o replace_char(lower(mac_upper), ":", "_")

\* the mutant of the recovery that keeps the case of the groups
mac_from_identifier_keep_case(value) ==
  IF ~startswith(value, IdentPrefix) THEN <<>>
  ELSE LET parts == split(remove_all(value, IdentPrefix), "_")
       IN  IF Len(parts) # MacGroups THEN <<>>
           ELSE join(parts, <<":">>)

\* the recovery of the MAC from an identifier value, as done by
\* handle_device_registry_update, sync_existing_devices and fix_all_names:
\* <<>> when the value does not have the prefix or not six groups
mac_from_identifier(value) ==
  IF ~startswith(value, IdentPrefix) THEN <<>>
  ELSE LET parts == split(remove_all(value, IdentPrefix), "_")
       IN  IF Len(parts) # MacGroups THEN <<>>
           ELSE join([i \in 1..Len(parts) |-> upper(parts[i])], <<":">>)

\* MAC_ANY_PATTERN at position i of s: the length of the match, 0 if none.
\* First alternative: ([0-9A-Fa-f]{2}[:\-]){5}[0-9A-Fa-f]{2}; second:
\* [0-9A-Fa-f]{12}.  Both have one fixed length, so the first alternative
\* that matches at i is the match.
mac_match_len(s, i) ==
  IF /\ i + 16 <= Len(s)
     /\ \A k \in 0..16 :
          IF k % 3 = 2 THEN s[i + k] \in {":", "-"} ELSE s[i + k] \in HexChars
    THEN 17
  ELSE IF /\ i + 11 <= Len(s)
          /\ \A k \in 0..11 : s[i + k] \in HexChars
    THEN 12
  ELSE 0

\* MAC_ANY_PATTERN.sub("", s), scanning from position i
RECURSIVE mac_sub(_, _)
mac_sub(s, i) ==
  IF i > Len(s) THEN <<>>
  ELSE LET n == mac_match_len(s, i)
       IN  IF n > 0 THEN mac_sub(s, i + n)
           ELSE <<s[i]>> \o mac_sub(s, i + 1)

\* re.sub(r"\s{2,}", " ", s), scanning from position i
RECURSIVE collapse_spaces(_, _)
collapse_spaces(s, i) ==
  IF i > Len(s) THEN <<>>
  ELSE IF s[i] \in SpaceChars /\ i < Len(s) /\ s[i + 1] \in SpaceChars
    THEN LET rest == {j \in i..Len(s) : s[j] \notin SpaceChars}
             nxt  == IF rest = {} THEN Len(s) + 1
                     ELSE CHOOSE j \in rest : \A k \in rest : j <= k
         IN  <<" ">> \o collapse_spaces(s, nxt)
  ELSE <<s[i]>> \o collapse_spaces(s, i + 1)

strip_paren_mac(name, mac_upper) ==
  LET suffix == <<"(">> \o mac_upper \o <<")">>
  IN  IF endswith(name, suffix)
        THEN strip(Slice(name, 1, Len(name) - Len(suffix)))
        ELSE name

cleanup_user_name(name, mac_upper) ==
  LET n1 == strip_paren_mac(name, mac_upper)
      n2 == strip(mac_sub(n1, 1))
      n3 == collapse_spaces(n2, 1)
  IN  IF n3 = <<>> THEN BaseLabel ELSE n3

(***************************************************************************)
(* Bounds and the texts of the model.                                      *)
(***************************************************************************)
\* scanner objects constructed in one run
MaxScanners == 2

\* packets one scanner records in one run
MaxPackets == 2

\* local-date changes in one run
MaxDay == 1

\* hours the monotonic clock advances in one run
MaxClock == 2

\* "AA:BB:CC:DD:EE:01" and two more spellings of it, "AA:BB:CC:DD:EE:02"
MAC1 == <<"A","A",":","B","B",":","C","C",":","D","D",":","E","E",":","0","1">>

MAC1_LOWER == <<"a","a",":","b","b",":","c","c",":","d","d",":","e","e",":","0","1">>

MAC1_DASH == <<"A","A","-","B","B","-","C","C","-","D","D","-","E","E","-","0","1">>

MAC2 == <<"A","A",":","B","B",":","C","C",":","D","D",":","E","E",":","0","2">>

\* the address of a peer device, "c0:ff:ee:00:00:01"
PEER == <<"c","0",":","f","f",":","e","e",":","0","0",":","0","0",":","0","1">>

\* user-assigned names: "Office", "Lab", "Office (AA:BB:CC:DD:EE:01)",
\* "Lancom AP Flur", "AABBCCDDEE01"
NAME_OFFICE == <<"O","f","f","i","c","e">>

NAME_LAB == <<"L","a","b">>

NAME_OFFICE_MAC ==
  <<"O","f","f","i","c","e"," ","(","A","A",":","B","B",":","C","C",":",
    "D","D",":","E","E",":","0","1",")">>

NAME_FLUR == <<"L","a","n","c","o","m"," ","A","P"," ","F","l","u","r">>

NAME_HEX == <<"A","A","B","B","C","C","D","D","E","E","0","1">>

\* "Lab aa-bb-cc-dd-ee-01"
NAME_DASHED ==
  <<"L","a","b"," ","a","a","-","b","b","-","c","c","-","d","d","-","e","e",
    "-","0","1">>

\* "AABBCCAA:BB:CC:DD:EE:01DDEEFF": a MAC between two runs of six hex digits
NAME_JOINED ==
  <<"A","A","B","B","C","C","A","A",":","B","B",":","C","C",":","D","D",":",
    "E","E",":","0","1","D","D","E","E","F","F">>

Measurement(addr, rssi) ==
  [is_object |-> TRUE, deviceAddress |-> addr, rssi |-> rssi, name |-> <<>>,
   advertisingData |-> <<>>]

\* the well-formed measurements an access point reports, in the order it
\* reports them, and the lists of them
Reported ==
  <<Measurement(PEER, [t |-> "int", v |-> -60]),
    Measurement(MAC2, [t |-> "int", v |-> -61])>>

ReportedLists ==
  UNION {[1..n -> {Reported[i] : i \in 1..Len(Reported)}] : n \in 0..Len(Reported)}

\* the payload lists holding the first n reported measurements, n in ns
Measurements(ns) ==
  {l \in ReportedLists : Len(l) \in ns /\ l = SubSeq(Reported, 1, Len(l))}

\* the MAC texts operations receive, the names users assign and the
\* identifier values registry entries carry
RawMacs == {MAC1, MAC1_LOWER, MAC1_DASH, MAC2, PEER}

UserNames ==
  {NAME_OFFICE, NAME_LAB, NAME_OFFICE_MAC, NAME_FLUR, NAME_HEX, NAME_DASHED,
   NAME_JOINED}

(***************************************************************************)
(* The values of the pure helpers on the texts of the model.  TLC          *)
(* evaluates a constant function once, so the handlers below look the      *)
(* values up here instead of recomputing them character by character in    *)
(* every state; a text outside the tables is computed directly.            *)
(***************************************************************************)
FormatTable == [r \in RawMacs |-> format_ble_mac(r)]

format_mac(raw) ==
  IF raw \in DOMAIN FormatTable THEN FormatTable[raw] ELSE format_ble_mac(raw)

KnownMacs == {FormatTable[r] : r \in RawMacs}

IdentTable == [m \in KnownMacs |-> identifier_for(m)]

ident_of(mac_upper) ==
  IF mac_upper \in DOMAIN IdentTable THEN IdentTable[mac_upper]
  ELSE identifier_for(mac_upper)

KnownIdents == {IdentTable[m] : m \in KnownMacs} \cup KnownMacs

MacTable == [v \in KnownIdents |-> mac_from_identifier(v)]

mac_of_ident(value) ==
  IF value \in DOMAIN MacTable THEN MacTable[value]
  ELSE mac_from_identifier(value)

CleanTable ==
  [x \in UserNames \X KnownMacs |-> cleanup_user_name(x[1], x[2])]

clean_name(name, mac_upper) ==
  IF <<name, mac_upper>> \in DOMAIN CleanTable
    THEN CleanTable[<<name, mac_upper>>]
    ELSE cleanup_user_name(name, mac_upper)

DefaultTable == [m \in KnownMacs |-> BaseLabel \o <<" ">> \o m]

\* f"Lancom AP {mac_upper}"
default_name(mac_upper) ==
  IF mac_upper \in DOMAIN DefaultTable THEN DefaultTable[mac_upper]
  ELSE BaseLabel \o <<" ">> \o mac_upper

LowerTable == [m \in KnownMacs |-> lower(m)]

mac_connection_only(mac_upper) ==
  {<<"mac", IF mac_upper \in DOMAIN LowerTable THEN LowerTable[mac_upper]
            ELSE lower(mac_upper)>>}

(***************************************************************************)
(* State.                                                                  *)
(***************************************************************************)
VARIABLES
  phase,             \* "new": before async_setup_entry, "loaded", "unloaded"
  devices,           \* host device registry: device id -> DeviceEntry
  next_dev,          \* the id the host gives the next created device
  events,            \* EVENT_DEVICE_REGISTRY_UPDATED events not yet delivered
  scanners,          \* manager._scanners: MAC -> scanner object
  cancel_callbacks,  \* manager._cancel_callbacks: MAC -> registration handle
  scanner_listeners, \* manager._scanner_listeners
  objs,              \* every LancomBLERemoteScanner constructed so far
  registered,        \* host: scanner objects with an active registration
  cancel_calls,      \* host: per scanner object, calls of its cancel handle
  notified,          \* per scanner object, listener callbacks it was passed to
  attached,          \* scanner objects the sensor platform made sensors for
  timers,            \* host: armed async_call_later timers [id, owner]
  now,               \* MONOTONIC_TIME()
  today,             \* the local calendar date
  adverts,           \* advertisements injected by the last operation
  last,              \* the manager method called last and what it returned
  track              \* the user edit of a default-named entry being followed

vars ==
  <<phase, devices, next_dev, events, scanners, cancel_callbacks,
    scanner_listeners, objs, registered, cancel_calls, notified, attached,
    timers, now, today, adverts, last, track>>

\* What the host does to the calls of one operation: whether its advertisement
\* entry point raises, and the scanner objects whose cancel handle raises.
NoFaults == [advert |-> FALSE, cancel |-> {}, register |-> FALSE]

\* The state as one value, so that a handler is a function from state to state
\* and handlers compose the way the calls in the code do.  "writes" counts the
\* registry writes, "reregs" the re-registrations and "tcancel" the cancelled
\* timers of the running operation; "raised" are the cancel handles that raised,
\* "recorded" counts its _record_packet calls and "failed" tells that an
\* exception left LancomBLEScannerManager.inject_ble.
World ==
  [devices |-> devices, next_dev |-> next_dev, events |-> events,
   scanners |-> scanners, cancel_callbacks |-> cancel_callbacks,
   scanner_listeners |-> scanner_listeners, objs |-> objs,
   registered |-> registered, cancel_calls |-> cancel_calls,
   notified |-> notified, attached |-> attached, timers |-> timers,
   now |-> now, today |-> today, adverts |-> <<>>, writes |-> 0, reregs |-> 0,
   raised |-> {}, tcancel |-> 0, recorded |-> 0, failed |-> FALSE,
   faults |-> NoFaults]

\* config_entry.entry_id of this integration entry
ENTRY_ID == "entry"

NoLast ==
  [op |-> "none", mac |-> <<>>, ret |-> 0, prev |-> 0, dups |-> {}, before |-> 0,
   hook |-> "none", measurements |-> <<>>, raw |-> <<>>, ap_list |-> <<>>]

\* no user edit is being followed
NoTrack == [dev |-> 0, cleaned |-> <<>>, reregs |-> 0, again |-> FALSE]

Commit(w, l) ==
  /\ devices' = w.devices
  /\ next_dev' = w.next_dev
  /\ events' = w.events
  /\ scanners' = w.scanners
  /\ cancel_callbacks' = w.cancel_callbacks
  /\ scanner_listeners' = w.scanner_listeners
  /\ objs' = w.objs
  /\ registered' = w.registered
  /\ cancel_calls' = w.cancel_calls
  /\ notified' = w.notified
  /\ attached' = w.attached
  /\ timers' = w.timers
  /\ adverts' = w.adverts
  /\ last' = l @@ [writes |-> w.writes, reregs |-> w.reregs,
                    raised |-> w.raised, tcancel |-> w.tcancel,
                    recorded |-> w.recorded, failed |-> w.failed] @@ NoLast

\* dict without a key / with a key set
MapDel(f, k) == [x \in (DOMAIN f) \ {k} |-> f[x]]

MapPut(f, k, v) == [x \in (DOMAIN f) \cup {k} |-> IF x = k THEN v ELSE f[x]]

(***************************************************************************)
(* The host's device registry (homeassistant.helpers.device_registry), as  *)
(* the code uses it.  Every write that changes an entry fires one          *)
(* EVENT_DEVICE_REGISTRY_UPDATED event; a write that changes nothing fires *)
(* none.                                                                   *)
(***************************************************************************)
fire(w, action, id) ==
  [w EXCEPT !.events = Append(@, [action |-> action, device_id |-> id])]

\* devreg.async_update_device(id, <field>=value)
async_update_device(w, id, field, value) ==
  IF w.devices[id][field] = value THEN w
  ELSE fire([w EXCEPT !.devices[id][field] = value, !.writes = @ + 1],
            "update", id)

\* devreg.async_remove_device(id)
async_remove_device(w, id) ==
  fire([w EXCEPT !.devices = MapDel(@, id), !.writes = @ + 1], "remove", id)

\* async_remove_config_entry_device: the entry is deleted when it belongs to
\* this integration entry alone; otherwise it loses the identifiers of this
\* integration and the association, in one registry update
async_remove_config_entry_device(w, id) ==
  LET detached(dev) ==
        [dev EXCEPT !.identifiers = {i \in @ : i[1] # DOMAIN_ID},
                    !.config_entries = @ \ {ENTRY_ID}]
      detach(dev) ==
        IF detached(dev) = dev THEN w
        ELSE fire([w EXCEPT !.devices[id] = detached(dev), !.writes = @ + 1],
                  "update", id)
  IN  IF w.devices[id].config_entries = {ENTRY_ID}
        THEN async_remove_device(w, id)
        ELSE detach(w.devices[id])

\* devreg.async_get_device(identifiers={(DOMAIN, ident)}): the id, 0 for None
async_get_device(w, ident) ==
  LET hit == {d \in DOMAIN w.devices :
                <<DOMAIN_ID, ident>> \in w.devices[d].identifiers}
  IN  IF hit = {} THEN 0 ELSE CHOOSE d \in hit : \A e \in hit : d <= e

\* the entry the host finds by connection key, 0 for None
device_by_connection(w, conns) ==
  LET hit == {d \in DOMAIN w.devices : w.devices[d].connections \cap conns # {}}
  IN  IF hit = {} THEN 0 ELSE CHOOSE d \in hit : \A e \in hit : d <= e

\* devreg.async_get_or_create(config_entry_id, identifiers, name, connections):
\* the entry with one of the identifiers, else the entry with one of the
\* connections (connection-key dedup), is updated; else a new entry is made.
async_get_or_create(w, ident, name, conns) ==
  LET merged(old) ==
        [old EXCEPT !.identifiers = @ \cup {<<DOMAIN_ID, ident>>},
                    !.connections = @ \cup conns,
                    !.config_entries = @ \cup {ENTRY_ID},
                    !.name = name]
      into(d) ==
        IF d = 0
          THEN fire([w EXCEPT
                       !.devices = MapPut(@, w.next_dev,
                          [identifiers |-> {<<DOMAIN_ID, ident>>},
                           connections |-> conns,
                           config_entries |-> {ENTRY_ID},
                           name |-> name,
                           name_by_user |-> <<>>]),
                       !.next_dev = @ + 1,
                       !.writes = @ + 1],
                    "create", w.next_dev)
        ELSE IF merged(w.devices[d]) = w.devices[d] THEN w
        ELSE fire([w EXCEPT !.devices[d] = merged(@), !.writes = @ + 1],
                  "update", d)
      found(byid) == IF byid # 0 THEN byid ELSE device_by_connection(w, conns)
  IN  into(found(async_get_device(w, ident)))

(***************************************************************************)
(* Name policy.                                                            *)
(***************************************************************************)
get_base_device_name(w, mac_upper) ==
  LET of(d) ==
        IF d = 0 THEN BaseLabel
        ELSE IF w.devices[d].name_by_user # <<>>
          THEN clean_name(w.devices[d].name_by_user, mac_upper)
        ELSE BaseLabel
  IN  of(async_get_device(w, ident_of(mac_upper)))

\* the mutant of ensure_device_registry_default_name that also renames entries
\* with a user name
ensure_default_ignoring_user(w, mac_upper) ==
  LET on(d) ==
        IF d = 0 THEN w
        ELSE async_update_device(w, d, "name", default_name(mac_upper))
  IN  on(async_get_device(w, ident_of(mac_upper)))

ensure_device_registry_default_name(w, mac_upper) ==
  LET on(d) ==
        IF d = 0 THEN w
        ELSE IF w.devices[d].name_by_user # <<>> THEN w
        ELSE async_update_device(w, d, "name", default_name(mac_upper))
  IN  on(async_get_device(w, ident_of(mac_upper)))

\* the mutant of the condition below without "current != cleaned"
align_default_like(w, mac_upper) ==
  LET default_like(current) ==
        \/ current = default_name(mac_upper)
        \/ startswith(current, BaseLabel)
      on(d) ==
        /\ d # 0
        /\ w.devices[d].name_by_user # <<>>
        /\ default_like(w.devices[d].name)
  IN  on(async_get_device(w, ident_of(mac_upper)))

\* the condition under which maybe_align_device_name_with_user writes (and
\* returns True)
align_needed(w, mac_upper) ==
  LET differs(current, cleaned) ==
        /\ \/ current = default_name(mac_upper)
           \/ startswith(current, BaseLabel)
        /\ current # cleaned
      on(d) ==
        /\ d # 0
        /\ w.devices[d].name_by_user # <<>>
        /\ differs(w.devices[d].name,
                   clean_name(w.devices[d].name_by_user, mac_upper))
  IN  on(async_get_device(w, ident_of(mac_upper)))

maybe_align_device_name_with_user(w, mac_upper) ==
  LET write(d) ==
        async_update_device(w, d, "name",
          clean_name(w.devices[d].name_by_user, mac_upper))
  IN  IF align_needed(w, mac_upper)
        THEN write(async_get_device(w, ident_of(mac_upper)))
        ELSE w

(***************************************************************************)
(* LancomBLERemoteScanner.                                                 *)
(***************************************************************************)
\* signal strengths of the three kinds of self-advertisement
RSSI_SELF == -55

RSSI_RENAME == -54

RSSI_REFRESH == -58

\* time_since_last_detection() of a scanner that has detected nothing
NEVER_SEEN == 9999

\* LancomBLERemoteScanner.__init__; "recorded_on" is not a field of the code:
\* it keeps the local date of every _record_packet call of the object
new_scanner(w, mac_upper) ==
  [mac_upper |-> mac_upper,
   discovered_devices |-> <<>>,
   lancom_timestamps |-> <<>>,
   last_detection_monotonic |-> 0,
   self_injected |-> FALSE,
   delayed_task_cancel |-> 0,
   friendly_base_name |-> BaseLabel,
   packet_times |-> <<>>,
   packets_today |-> 0,
   today_date |-> w.today,
   recorded_on |-> <<>>]

\* the mutant of _inject that calls the host's advertisement entry point first
\* and without try/except: a rejected advertisement leaves nothing stored and
\* the exception leaves _inject
inject_deliver_first(w, o, address, local_name, rssi, details) ==
  IF w.faults.advert
    THEN [w EXCEPT
            !.adverts = Append(@, [scanner |-> o, address |-> address,
                                   name |-> local_name, rssi |-> rssi,
                                   details |-> details, delivered |-> FALSE]),
            !.failed = TRUE]
    ELSE [w EXCEPT
            !.objs[o].lancom_timestamps = MapPut(@, address, w.now),
            !.objs[o].last_detection_monotonic = w.now,
            !.objs[o].discovered_devices = MapPut(@, address, <<local_name, rssi>>),
            !.adverts = Append(@, [scanner |-> o, address |-> address,
                                   name |-> local_name, rssi |-> rssi,
                                   details |-> details, delivered |-> TRUE])]

\* _inject: _set_stamp, the stored pair, then the host's advertisement entry
\* point, whose failure is caught and logged
inject(w, o, address, local_name, rssi, details) ==
  [w EXCEPT
     !.objs[o].lancom_timestamps = MapPut(@, address, w.now),
     !.objs[o].last_detection_monotonic = w.now,
     !.objs[o].discovered_devices = MapPut(@, address, <<local_name, rssi>>),
     !.adverts = Append(@, [scanner |-> o, address |-> address,
                            name |-> local_name, rssi |-> rssi,
                            details |-> details,
                            delivered |-> ~w.faults.advert])]

\* _compute_base_name
compute_base_name(w, o) ==
  [w EXCEPT !.objs[o].friendly_base_name =
              get_base_device_name(w, w.objs[o].mac_upper)]

\* self._inject(self.mac_upper, base, rssi, {details: True}) with the base
\* name _compute_base_name has just stored
inject_own(w, o, rssi, details) ==
  inject(w, o, w.objs[o].mac_upper, w.objs[o].friendly_base_name, rssi, details)

\* the handle async_call_later returns: an id no armed timer and no scanner holds
fresh_timer(w) ==
  LET unused(used) == CHOOSE n \in 1..(Cardinality(used) + 1) : n \notin used
  IN  unused({t.id : t \in w.timers}
               \cup {w.objs[i].delayed_task_cancel : i \in 1..Len(w.objs)})

\* the mutant of _schedule_delayed_self_advert that arms without cancelling
schedule_without_cancel(w, o) ==
  LET arm(v, id) == [v EXCEPT !.timers = @ \cup {[id |-> id, owner |-> o]},
                              !.objs[o].delayed_task_cancel = id]
  IN  arm(w, fresh_timer(w))

\* _schedule_delayed_self_advert: cancel the pending timer, arm a new one
schedule_delayed_self_advert(w, o) ==
  LET cancel(h) ==
        IF h # 0
          THEN [w EXCEPT !.timers = {t \in @ : t.id # h},
                         !.tcancel = @ + Cardinality({t \in w.timers : t.id = h}),
                         !.objs[o].delayed_task_cancel = 0]
          ELSE w
      arm(v, id) == [v EXCEPT !.timers = @ \cup {[id |-> id, owner |-> o]},
                              !.objs[o].delayed_task_cancel = id]
      rearm(v) == arm(v, fresh_timer(v))
  IN  rearm(cancel(w.objs[o].delayed_task_cancel))

\* the timer callback _delayed of _schedule_delayed_self_advert
delayed(w, t) ==
  LET clear(v) == [v EXCEPT !.timers = @ \ {t},
                            !.objs[t.owner].delayed_task_cancel = 0]
  IN  inject_own(compute_base_name(clear(w), t.owner), t.owner,
                 RSSI_REFRESH, "lancom_self_refresh")

inject_self_advert(w, o) ==
  LET ensure(v) == ensure_device_registry_default_name(v, v.objs[o].mac_upper)
      mark(v)   == [v EXCEPT !.objs[o].self_injected = TRUE]
  IN  schedule_delayed_self_advert(
        mark(inject_own(ensure(compute_base_name(w, o)), o,
                        RSSI_SELF, "lancom_self")), o)

reinject_name(w, o) ==
  schedule_delayed_self_advert(
    inject_own(compute_base_name(w, o), o, RSSI_RENAME, "lancom_self_rename"), o)

\* the mutant of _roll_today_if_needed that stores the new date and keeps the
\* counter
roll_today_keep_count(w, o) ==
  IF w.today # w.objs[o].today_date
    THEN [w EXCEPT !.objs[o].today_date = w.today]
    ELSE w

\* _roll_today_if_needed
roll_today_if_needed(w, o) ==
  IF w.today # w.objs[o].today_date
    THEN [w EXCEPT !.objs[o].today_date = w.today,
                   !.objs[o].packets_today = 0]
    ELSE w

\* the 24 hours of the rolling window, in the clock's unit (one hour)
WINDOW_24H == 24

\* the mutant of the pruning loop that drops nothing
prune_nothing(times, cutoff) == times

\* the while loop of _record_packet: drop the deque's front while it is older
\* than the cutoff
RECURSIVE prune(_, _)
prune(times, cutoff) ==
  IF times # <<>> /\ Head(times) < cutoff THEN prune(Tail(times), cutoff)
  ELSE times

\* _record_packet
record_packet(w, o) ==
  LET count(v) ==
        [v EXCEPT
           !.objs[o].packet_times = prune(Append(@, v.now), v.now - WINDOW_24H),
           !.objs[o].packets_today = @ + 1,
           !.objs[o].recorded_on = Append(@, v.today),
           !.recorded = @ + 1]
  IN  count(roll_today_if_needed(w, o))

(***************************************************************************)
(* LancomBLEScannerManager.                                                *)
(***************************************************************************)
\* the object id of the scanner a constructor call is about to make
next_obj(w) == Len(w.objs) + 1

\* LancomBLERemoteScanner(hass, mac) followed by async_register_scanner and
\* the two map assignments; when async_register_scanner raises, the exception
\* leaves the caller before the assignments and the new object is dropped
install_scanner(w, mac_upper) ==
  IF w.faults.register THEN [w EXCEPT !.failed = TRUE]
  ELSE [w EXCEPT !.objs = Append(@, new_scanner(w, mac_upper)),
                 !.cancel_calls = Append(@, 0),
                 !.notified = Append(@, 0),
                 !.registered = @ \cup {next_obj(w)},
                 !.scanners = MapPut(@, mac_upper, next_obj(w)),
                 !.cancel_callbacks = MapPut(@, mac_upper, next_obj(w))]

\* a call of the cancel handle of scanner object o (it may raise; the callers
\* catch and log that)
call_cancel(w, o) ==
  [w EXCEPT !.cancel_calls[o] = @ + 1, !.registered = @ \ {o},
            !.raised = IF o \in w.faults.cancel THEN @ \cup {o} ELSE @]

\* for cb in list(self._scanner_listeners): cb(scanner)
notify_listeners(w, o) ==
  [w EXCEPT !.notified[o] = @ + Len(w.scanner_listeners),
            !.attached = IF w.scanner_listeners # <<>> THEN @ \cup {o} ELSE @]

_register_or_update_device(w, mac_upper) ==
  LET add_entry(v, existing) ==
        async_update_device(v, existing, "config_entries",
                            v.devices[existing].config_entries \cup {ENTRY_ID})
      on(existing) ==
        IF existing # 0
          THEN async_update_device(add_entry(w, existing), existing,
                                   "connections", mac_connection_only(mac_upper))
          ELSE async_get_or_create(w, ident_of(mac_upper),
                                   default_name(mac_upper),
                                   mac_connection_only(mac_upper))
  IN  on(async_get_device(w, ident_of(mac_upper)))

\* the mutant of get_or_create_scanner that does not look the MAC up
get_or_create_always_new(w, ap_mac_raw, inject_self) ==
  LET prepare(v, mac_upper) ==
        ensure_device_registry_default_name(
          _register_or_update_device(v, mac_upper), mac_upper)
      install(v, mac_upper) ==
        notify_listeners(install_scanner(v, mac_upper), next_obj(v))
      advertise(v, o) == IF inject_self THEN inject_self_advert(v, o) ELSE v
      create(v, mac_upper) == advertise(install(v, mac_upper), next_obj(v))
      on(mac_upper) == create(prepare(w, mac_upper), mac_upper)
  IN  on(format_mac(ap_mac_raw))

get_or_create_scanner(w, ap_mac_raw, inject_self) ==
  LET prepare(v, mac_upper) ==
        ensure_device_registry_default_name(
          _register_or_update_device(v, mac_upper), mac_upper)
      listeners(u, o) == IF u.failed THEN u ELSE notify_listeners(u, o)
      install(v, mac_upper) ==
        listeners(install_scanner(v, mac_upper), next_obj(v))
      advertise(v, o) ==
        IF inject_self /\ ~v.failed THEN inject_self_advert(v, o) ELSE v
      create(v, mac_upper) == advertise(install(v, mac_upper), next_obj(v))
      on(mac_upper) ==
        IF mac_upper \notin DOMAIN w.scanners
          THEN create(prepare(w, mac_upper), mac_upper)
          ELSE advertise(w, w.scanners[mac_upper])
  IN  on(format_mac(ap_mac_raw))

\* the mutant of remove_scanner that calls the handle and keeps it in the map
remove_scanner_keep_handle(w, mac_upper) ==
  LET forget(v) == [v EXCEPT !.scanners = MapDel(@, mac_upper)]
  IN  IF mac_upper \in DOMAIN w.cancel_callbacks
        THEN forget(call_cancel(w, w.cancel_callbacks[mac_upper]))
        ELSE forget(w)

remove_scanner(w, mac_upper) ==
  LET forget(v) == [v EXCEPT !.cancel_callbacks = MapDel(@, mac_upper),
                             !.scanners = MapDel(@, mac_upper)]
  IN  IF mac_upper \in DOMAIN w.cancel_callbacks
        THEN forget(call_cancel(w, w.cancel_callbacks[mac_upper]))
        ELSE forget(w)

\* for mac, cancel in list(self._cancel_callbacks.items()): cancel()
RECURSIVE cancel_each(_, _)
cancel_each(w, handles) ==
  LET least(S) == CHOOSE x \in S : \A y \in S : x <= y
      step(o) == cancel_each(call_cancel(w, o), handles \ {o})
  IN  IF handles = {} THEN w ELSE step(least(handles))

\* the mutant of unload without the try/except around cancel(): the first
\* cancel that raises ends the method
unload_no_catch(w) ==
  LET least(S) == CHOOSE x \in S : \A y \in S : x <= y
      clear(v) == [v EXCEPT !.cancel_callbacks = <<>>, !.scanners = <<>>,
                            !.scanner_listeners = <<>>]
      run(handles, bad) ==
        IF bad = {} THEN clear(cancel_each(w, handles))
        ELSE cancel_each(w, {h \in handles : h <= least(bad)})
      on(handles) == run(handles, handles \cap w.faults.cancel)
  IN  on({w.cancel_callbacks[m] : m \in DOMAIN w.cancel_callbacks})

unload(w) ==
  LET clear(v) == [v EXCEPT !.cancel_callbacks = <<>>, !.scanners = <<>>,
                            !.scanner_listeners = <<>>]
  IN  clear(cancel_each(w, {w.cancel_callbacks[m] :
                              m \in DOMAIN w.cancel_callbacks}))

\* the mutant of _re_register_scanner that does not call the old cancel handle
re_register_without_cancel(w, mac_upper) ==
  LET forget(v) == [v EXCEPT !.cancel_callbacks = MapDel(@, mac_upper),
                             !.scanners = MapDel(@, mac_upper)]
      install(v) ==
        inject_self_advert(
          [install_scanner(v, mac_upper) EXCEPT !.reregs = @ + 1], next_obj(v))
  IN  install(forget(w))

_re_register_scanner(w, mac_upper) ==
  LET forget(v) == [v EXCEPT !.cancel_callbacks = MapDel(@, mac_upper),
                             !.scanners = MapDel(@, mac_upper)]
      drop(v) ==
        IF mac_upper \in DOMAIN v.cancel_callbacks
          THEN forget(call_cancel(v, v.cancel_callbacks[mac_upper]))
          ELSE forget(v)
      sent(u, o) ==
        IF u.failed THEN u
        ELSE inject_self_advert([u EXCEPT !.reregs = @ + 1], o)
      install(v) == sent(install_scanner(v, mac_upper), next_obj(v))
  IN  install(drop(w))

\* the identifiers of a device that handle_device_registry_update accepts:
\* domain DOMAIN, prefix "lancom_ble_" and six groups
own_identifiers(dev) ==
  {i \in dev.identifiers :
     i[1] = DOMAIN_ID /\ mac_of_ident(i[2]) # <<>>}

\* the mutant of handle_device_registry_update that never re-registers
handle_reinject_only(w, ev) ==
  LET refresh(v, mac) ==
        IF mac \in DOMAIN v.scanners THEN reinject_name(v, v.scanners[mac])
        ELSE v
      on(mac) == refresh(maybe_align_device_name_with_user(w, mac), mac)
      first(own) ==
        IF own = {} THEN w
        ELSE on(mac_of_ident((CHOOSE i \in own : TRUE)[2]))
  IN  IF ev.action # "update" THEN w
      ELSE IF ev.device_id = 0 THEN w
      ELSE IF ev.device_id \notin DOMAIN w.devices THEN w
      ELSE first(own_identifiers(w.devices[ev.device_id]))

\* the mutant of handle_device_registry_update that handles every action
handle_any_action(w, ev) ==
  LET refresh(v, mac) ==
        IF mac \in DOMAIN v.scanners THEN reinject_name(v, v.scanners[mac])
        ELSE v
      on(mac) ==
        IF align_needed(w, mac)
          THEN _re_register_scanner(maybe_align_device_name_with_user(w, mac),
                                    mac)
          ELSE refresh(maybe_align_device_name_with_user(w, mac), mac)
      first(own) ==
        IF own = {} THEN w
        ELSE on(mac_of_ident((CHOOSE i \in own : TRUE)[2]))
  IN  IF ev.device_id = 0 THEN w
      ELSE IF ev.device_id \notin DOMAIN w.devices THEN w
      ELSE first(own_identifiers(w.devices[ev.device_id]))

\* handle_device_registry_update: the first accepted identifier decides (the
\* loop breaks after it)
handle_device_registry_update(w, ev) ==
  LET refresh(v, mac) ==
        IF mac \in DOMAIN v.scanners THEN reinject_name(v, v.scanners[mac])
        ELSE v
      on(mac) ==
        IF align_needed(w, mac)
          THEN _re_register_scanner(maybe_align_device_name_with_user(w, mac),
                                    mac)
          ELSE refresh(maybe_align_device_name_with_user(w, mac), mac)
      first(own) ==
        IF own = {} THEN w
        ELSE on(mac_of_ident((CHOOSE i \in own : TRUE)[2]))
  IN  IF ev.action # "update" THEN w
      ELSE IF ev.device_id = 0 THEN w
      ELSE IF ev.device_id \notin DOMAIN w.devices THEN w
      ELSE first(own_identifiers(w.devices[ev.device_id]))

\* consolidate_devices ------------------------------------------------------
\* the entries with an identifier of this integration and a "mac" connection
consolidate_candidates(w) ==
  {d \in DOMAIN w.devices :
     /\ \E i \in w.devices[d].identifiers : i[1] = DOMAIN_ID
     /\ \E c \in w.devices[d].connections : c[1] = "mac"}

\* mac_conns[0][1].upper(): the group key of an entry
group_key(w, d) ==
  upper((CHOOSE c \in w.devices[d].connections : c[1] = "mac")[2])

\* the mutant of consolidate_group that removes one duplicate only
consolidate_group_one(acc, key, group) ==
  LET first(S) == CHOOSE d \in S : \A e \in S : d <= e
      force(w, primary) ==
        async_update_device(w, primary, "connections", mac_connection_only(key))
      merge(w, primary) ==
        <<async_remove_device(force(w, primary), first(group \ {primary})),
          acc[2] + 1>>
      choose(w, canonical) ==
        merge(w, IF canonical # {} THEN first(canonical) ELSE first(group))
      on(w) ==
        choose(w, {d \in group :
                     <<DOMAIN_ID, ident_of(key)>> \in w.devices[d].identifiers})
  IN  IF Cardinality(group) <= 1 THEN acc ELSE on(acc[1])

\* the mutant of consolidate_group that keeps the first entry of the group
consolidate_group_first(acc, key, group) ==
  LET first(S) == CHOOSE d \in S : \A e \in S : d <= e
      RECURSIVE remove_each(_, _)
      remove_each(v, ds) ==
        IF ds = {} THEN v
        ELSE remove_each(async_remove_device(v, first(ds)), ds \ {first(ds)})
      force(w, primary) ==
        async_update_device(w, primary, "connections", mac_connection_only(key))
      merge(w, primary) ==
        <<remove_each(force(w, primary), group \ {primary}),
          acc[2] + Cardinality(group) - 1>>
  IN  IF Cardinality(group) <= 1 THEN acc ELSE merge(acc[1], first(group))

\* one group of the second loop: choose the primary, force its connection set,
\* remove the others; acc = <<state, removed>>
consolidate_group(acc, key, group) ==
  LET first(S) == CHOOSE d \in S : \A e \in S : d <= e
      RECURSIVE remove_each(_, _)
      remove_each(v, ds) ==
        IF ds = {} THEN v
        ELSE remove_each(async_remove_device(v, first(ds)), ds \ {first(ds)})
      force(w, primary) ==
        async_update_device(w, primary, "connections", mac_connection_only(key))
      merge(w, primary) ==
        <<remove_each(force(w, primary), group \ {primary}),
          acc[2] + Cardinality(group) - 1>>
      choose(w, canonical) ==
        merge(w, IF canonical # {} THEN first(canonical) ELSE first(group))
      on(w) ==
        choose(w, {d \in group :
                     <<DOMAIN_ID, ident_of(key)>> \in w.devices[d].identifiers})
  IN  IF Cardinality(group) <= 1 THEN acc ELSE on(acc[1])

RECURSIVE consolidate_groups(_, _, _)
consolidate_groups(acc, keys, w0) ==
  LET step(k) ==
        consolidate_groups(
          consolidate_group(acc, k, {d \in consolidate_candidates(w0) :
                                      group_key(w0, d) = k}),
          keys \ {k}, w0)
  IN  IF keys = {} THEN acc ELSE step(CHOOSE x \in keys : TRUE)

\* consolidate_devices: <<state, removed>>
consolidate_devices(w) ==
  consolidate_groups(<<w, 0>>,
                     {group_key(w, d) : d \in consolidate_candidates(w)}, w)

\* fix_all_names -------------------------------------------------------------
\* the accepted identifiers of the entries that have a user name, as pairs of
\* device id and identifier value
fix_candidates(w) ==
  UNION {{<<d, i[2]>> : i \in own_identifiers(w.devices[d])} :
           d \in {e \in DOMAIN w.devices : w.devices[e].name_by_user # <<>>}}

\* the loops of fix_all_names over the entries and their identifiers:
\* <<state, changed>>.  "before" is the registry the loop started on: the
\* entry the inner loop reads is the one fetched before its writes.
RECURSIVE fix_each(_, _, _)
fix_each(acc, todo, before) ==
  LET first == CHOOSE p \in todo : \A q \in todo : p[1] <= q[1]
      write(d, user, cleaned) ==
        IF cleaned # user
          THEN <<async_update_device(acc[1], d, "name_by_user", cleaned),
                 acc[2] + 1>>
          ELSE acc
      on(d, mac) ==
        write(d, before.devices[d].name_by_user,
              clean_name(before.devices[d].name_by_user, mac))
  IN  IF todo = {} THEN acc
      ELSE fix_each(on(first[1], mac_of_ident(first[2])), todo \ {first}, before)

\* fix_all_names: <<state, changed>>
fix_all_names(w) == fix_each(<<w, 0>>, fix_candidates(w), w)

\* webhook ingest -----------------------------------------------------------
\* the signal strength used when the payload gives none
RSSI_DEFAULT == -70

\* the "unknown" signal strength of the access point
RSSI_UNKNOWN == -127

\* the decimal digits
Digits == <<"0","1","2","3","4","5","6","7","8","9">>

digit_of(c) == (CHOOSE i \in 1..Len(Digits) : Digits[i] = c) - 1

is_digits(s) ==
  s # <<>> /\ \A i \in 1..Len(s) : \E k \in 1..Len(Digits) : Digits[k] = s[i]

\* the number a text of decimal digits denotes
RECURSIVE digits_value(_)
digits_value(s) ==
  IF s = <<>> THEN 0
  ELSE 10 * digits_value(SubSeq(s, 1, Len(s) - 1)) + digit_of(s[Len(s)])

RECURSIVE power_of_ten(_)
power_of_ten(n) == IF n = 0 THEN 1 ELSE 10 * power_of_ten(n - 1)

\* round(num / den) of Python 3 for num >= 0: to the nearest integer, a tie to
\* the even one
round_half_even(num, den) ==
  LET q == num \div den
      r == num % den
  IN  IF 2 * r < den THEN q
      ELSE IF 2 * r > den THEN q + 1
      ELSE IF q % 2 = 0 THEN q ELSE q + 1

\* the sign and the unsigned rest of a numeric text
sign_of(s) == IF s # <<>> /\ Head(s) = "-" THEN -1 ELSE 1

unsigned(s) == IF s # <<>> /\ Head(s) \in {"-", "+"} THEN Tail(s) ELSE s

\* int(text): an optional sign and decimal digits; ok = FALSE when int raises
int_of_text(s) ==
  IF is_digits(unsigned(s))
    THEN [ok |-> TRUE, v |-> sign_of(s) * digits_value(unsigned(s))]
    ELSE [ok |-> FALSE, v |-> 0]

\* int(round(float(text))) for the texts "digits", "digits.", ".digits" and
\* "digits.digits" with an optional sign; ok = FALSE when float raises (no
\* number) and when round raises (nan, inf).  Texts with an exponent are not
\* part of this model.
rounded_float_of_text(s) ==
  LET body == unsigned(s)
      dots == {i \in 1..Len(body) : body[i] = "."}
      whole(i) == SubSeq(body, 1, i - 1)
      frac(i) == SubSeq(body, i + 1, Len(body))
      number(i) ==
        /\ whole(i) \o frac(i) # <<>>
        /\ is_digits(whole(i) \o frac(i))
      value(i) ==
        sign_of(s) * round_half_even(digits_value(whole(i) \o frac(i)),
                                     power_of_ten(Len(frac(i))))
      at(i) == IF number(i) THEN [ok |-> TRUE, v |-> value(i)]
               ELSE [ok |-> FALSE, v |-> 0]
  IN  IF Cardinality(dots) = 1 THEN at(CHOOSE i \in dots : TRUE)
      ELSE int_of_text(s)

\* the mutant of _safe_int that converts integers only
safe_int_int_only(value, default) ==
  IF value.t = "int" THEN value.v ELSE default

\* _safe_int.  An rssi value has a kind t: "none" (key absent or null), "int"
\* (the integer v), "float" (the finite number v / 10), "nan" (a float that is
\* no finite number), "str" (the text s), and any other kind for a value of
\* another type or a text that is known to be no number.
safe_int(value, default) ==
  LET text(first, second) ==
        IF first.ok THEN first.v ELSE IF second.ok THEN second.v ELSE default
  IN  IF value.t = "none" THEN default
      ELSE IF value.t = "int" THEN value.v
      ELSE IF value.t = "float"
        THEN (IF value.v < 0 THEN -1 ELSE 1)
               * round_half_even(IF value.v < 0 THEN -value.v ELSE value.v, 10)
      ELSE IF value.t = "nan" THEN default
      ELSE IF value.t = "str"
        THEN text(int_of_text(strip(value.s)),
                  rounded_float_of_text(strip(value.s)))
      ELSE default

\* binascii.unhexlify(adv_hex) raises for a text of odd length and for a text
\* with a character that is no hex digit
unhexlify_raises(adv_hex) ==
  \/ Len(adv_hex) % 2 = 1
  \/ \E i \in 1..Len(adv_hex) : adv_hex[i] \notin HexChars

\* the mutant of LancomBLERemoteScanner.inject_ble without the try/except
\* around unhexlify
RECURSIVE scanner_inject_ble_no_catch(_, _, _)
scanner_inject_ble_no_catch(w, o, measurements) ==
  LET remap(r0) == IF r0 = RSSI_UNKNOWN THEN RSSI_DEFAULT ELSE r0
      advertise(m, dev_mac_upper) ==
        inject(record_packet(w, o), o, dev_mac_upper,
               IF m.name # <<>> THEN m.name ELSE dev_mac_upper,
               remap(safe_int(m.rssi, RSSI_DEFAULT)), "lancom")
      one(m) ==
        IF ~m.is_object THEN [w EXCEPT !.failed = TRUE]
        ELSE IF m.deviceAddress = <<>>
          THEN scanner_inject_ble_no_catch(w, o, Tail(measurements))
        ELSE IF m.advertisingData # <<>> /\ unhexlify_raises(m.advertisingData)
          THEN [w EXCEPT !.failed = TRUE]
        ELSE scanner_inject_ble_no_catch(
               advertise(m, format_mac(m.deviceAddress)), o, Tail(measurements))
  IN  IF measurements = <<>> THEN w ELSE one(Head(measurements))

\* LancomBLERemoteScanner.inject_ble: the loop over the measurements; a
\* measurement that is no JSON object raises (m.get has no such attribute),
\* which ends the loop and leaves inject_ble.  The advertisingData of a
\* measurement, when it is a non-empty text, is decoded and the result is
\* discarded; a failure of the decoding is caught and logged, so that both
\* outcomes go on to _record_packet and _inject.
RECURSIVE scanner_inject_ble(_, _, _)
scanner_inject_ble(w, o, measurements) ==
  LET remap(r0) == IF r0 = RSSI_UNKNOWN THEN RSSI_DEFAULT ELSE r0
      advertise(m, dev_mac_upper) ==
        inject(record_packet(w, o), o, dev_mac_upper,
               IF m.name # <<>> THEN m.name ELSE dev_mac_upper,
               remap(safe_int(m.rssi, RSSI_DEFAULT)), "lancom")
      decoded(m, caught) == advertise(m, format_mac(m.deviceAddress))
      one(m) ==
        IF ~m.is_object THEN [w EXCEPT !.failed = TRUE]
        ELSE IF m.deviceAddress = <<>>
          THEN scanner_inject_ble(w, o, Tail(measurements))
        ELSE scanner_inject_ble(
               decoded(m, m.advertisingData # <<>>
                            /\ unhexlify_raises(m.advertisingData)),
               o, Tail(measurements))
  IN  IF measurements = <<>> THEN w ELSE one(Head(measurements))

\* the mutant of LancomBLEScannerManager.inject_ble without the deviceMac guard
inject_ble_unguarded(w, payload) ==
  LET forward(v) ==
        scanner_inject_ble(v, v.scanners[format_mac(payload.deviceMac)],
                           payload.measurements)
  IN  forward(get_or_create_scanner(w, payload.deviceMac, TRUE))

\* LancomBLEScannerManager.inject_ble
manager_inject_ble(w, payload) ==
  LET forward(v) ==
        IF v.failed THEN v
        ELSE scanner_inject_ble(v, v.scanners[format_mac(payload.deviceMac)],
                                payload.measurements)
  IN  IF payload.deviceMac = <<>> THEN w
      ELSE forward(get_or_create_scanner(w, payload.deviceMac, TRUE))

\* configuration ------------------------------------------------------------
\* the characters of this model in the order of their code points
CharOrder ==
  <<"\t", "\n", " ", "(", ")", ",", "-", "0","1","2","3","4","5","6","7","8","9",
    ":", ";">> \o UpperLetters \o <<"_">> \o LowerLetters

ord(c) == CHOOSE i \in 1..Len(CharOrder) : CharOrder[i] = c

\* a < b for Python strings
RECURSIVE str_less(_, _)
str_less(a, b) ==
  IF b = <<>> THEN FALSE
  ELSE IF a = <<>> THEN TRUE
  ELSE IF Head(a) # Head(b) THEN ord(Head(a)) < ord(Head(b))
  ELSE str_less(Tail(a), Tail(b))

\* sorted(S) for a set of strings
RECURSIVE sorted(_)
sorted(S) ==
  LET rest(least) == <<least>> \o sorted(S \ {least})
  IN  IF S = {} THEN <<>>
      ELSE rest(CHOOSE x \in S : \A y \in S \ {x} : str_less(x, y))

\* str.count(":")
count_colons(s) == Cardinality({i \in 1..Len(s) : s[i] = ":"})

\* normalize_input_mac_list for a list input
normalize_input_mac_list(raw) ==
  LET good(item) == /\ item # <<>>
                    /\ count_colons(format_mac(item)) = 5
                    /\ Len(format_mac(item)) = 17
  IN  sorted({format_mac(strip(raw[i])) :
                i \in {j \in 1..Len(raw) : good(strip(raw[j]))}})

\* the characters a configuration text is split at
ListSeparators == <<",", ";", "\n", " ">>

\* for ch in [",", ";", "\n", " "]: tmp = tmp.replace(ch, "\n"), then
\* tmp.split("\n")
mac_items(raw) ==
  split(replace_char(replace_char(replace_char(replace_char(
          raw, ListSeparators[1], "\n"), ListSeparators[2], "\n"),
          ListSeparators[3], "\n"), ListSeparators[4], "\n"), "\n")

\* normalize_input_mac_list for a text input
normalize_input_mac_text(raw) == normalize_input_mac_list(mac_items(raw))

\* ensure_initial_scanners
RECURSIVE ensure_initial_scanners(_, _)
ensure_initial_scanners(w, mac_list) ==
  IF mac_list = <<>> \/ w.failed THEN w
  ELSE ensure_initial_scanners(get_or_create_scanner(w, Head(mac_list), TRUE),
                               Tail(mac_list))

(***************************************************************************)
(* Operations.  An operation other than the delivery of a registry event   *)
(* starts only when no registry event is waiting: the event loop delivers  *)
(* the events a handler fired before it runs the next webhook, service     *)
(* call or timer.  The parameter f of an operation is what the host does   *)
(* to its calls (NoFaults: every call succeeds).                           *)
(***************************************************************************)
Idle == phase = "loaded" /\ events = <<>>

\* no call raises, or the cancel handle of one registered scanner raises
CancelFaults ==
  {NoFaults} \cup {[advert |-> FALSE, cancel |-> {o}, register |-> FALSE] :
                     o \in registered}

\* the part of a step every operation shares
Finish(w, l) ==
  /\ Len(w.objs) <= MaxScanners
  /\ \A i \in 1..Len(w.objs) : w.objs[i].packets_today <= MaxPackets
  /\ Commit(w, l)

\* the followed edit is dropped when its entry is gone
KeepTrack(w) ==
  track' = IF track.dev \in DOMAIN w.devices THEN track ELSE NoTrack

prev_of(mac) == IF mac \in DOMAIN scanners THEN scanners[mac] ELSE 0

ret_of(w, mac) == IF mac \in DOMAIN w.scanners THEN w.scanners[mac] ELSE 0

\* async_setup_entry with a list of access points in the configuration
SetupEntry(ap_raw) ==
  /\ phase = "new"
  /\ LET done(w, macs) ==
           /\ Finish(w, IF macs = <<>> THEN NoLast
                        ELSE [op |-> "get_or_create_scanner",
                              mac |-> macs[Len(macs)],
                              ret |-> ret_of(w, macs[Len(macs)])])
           /\ KeepTrack(w)
         run(macs) == done(ensure_initial_scanners(World, macs), macs)
     IN  run(normalize_input_mac_list(ap_raw))
  /\ phase' = "loaded"
  /\ UNCHANGED <<now, today>>

\* async_setup_entry with a text of access points in the configuration
SetupEntryText(ap_text) ==
  /\ phase = "new"
  /\ LET done(w, macs) ==
           /\ Finish(w, [op |-> "normalize_input_mac_list", raw |-> ap_text,
                         ap_list |-> macs])
           /\ KeepTrack(w)
         run(macs) == done(ensure_initial_scanners(World, macs), macs)
     IN  run(normalize_input_mac_text(ap_text))
  /\ phase' = "loaded"
  /\ UNCHANGED <<now, today>>

\* sensor.async_setup_entry: sensors for the existing scanners, then the
\* listener for the later ones
SensorSetup ==
  /\ Idle
  /\ scanner_listeners = <<>>
  /\ LET done(w) == Finish(w, [op |-> "register_scanner_listener"])
                      /\ KeepTrack(w)
     IN  done([World EXCEPT
                 !.attached = @ \cup {scanners[m] : m \in DOMAIN scanners},
                 !.scanner_listeners = Append(@, "sensor")])
  /\ UNCHANGED <<phase, now, today>>

\* the service add_ap (handle_add_ap)
AddAp(mac, f) ==
  /\ Idle
  /\ LET rejected(fm) == mac = <<>> \/ count_colons(fm) # 5
         done(w, fm) ==
           /\ Finish(w, IF rejected(fm) THEN [raw |-> mac]
                        ELSE [op |-> "get_or_create_scanner", mac |-> fm,
                              ret |-> ret_of(w, fm), prev |-> prev_of(fm),
                              raw |-> mac])
           /\ KeepTrack(w)
         run(w0, fm) ==
           done(IF rejected(fm) THEN w0 ELSE get_or_create_scanner(w0, fm, TRUE),
                fm)
     IN  run([World EXCEPT !.faults = f], format_mac(mac))
  /\ UNCHANGED <<phase, now, today>>

\* the webhook handler with a JSON object as body; it catches what
\* manager.inject_ble raises and answers 200 in every case.  A deviceMac of
\* <<>> stands for the three values "not ap_mac" holds for: key absent, null
\* and the empty string.
Webhook(payload, f) ==
  /\ Idle
  /\ LET done(w, fm) ==
           /\ Finish(w, IF payload.deviceMac = <<>> THEN [hook |-> "no deviceMac"]
                        ELSE [op |-> "get_or_create_scanner", mac |-> fm,
                              ret |-> ret_of(w, fm), prev |-> prev_of(fm),
                              hook |-> "ingested",
                              measurements |-> payload.measurements])
           /\ KeepTrack(w)
     IN  done(manager_inject_ble([World EXCEPT !.faults = f], payload),
              format_mac(payload.deviceMac))
  /\ UNCHANGED <<phase, now, today>>

\* the service force_scanner_name (handle_force_scanner_name)
ForceScannerName(mac, f) ==
  /\ Idle
  /\ LET done(w, fm) ==
           /\ Finish(w, IF mac = <<>> THEN NoLast
                        ELSE [op |-> "_re_register_scanner", mac |-> fm,
                              ret |-> ret_of(w, fm), prev |-> prev_of(fm)])
           /\ track' = NoTrack
         run(w0, fm) ==
           done(IF mac = <<>> THEN w0 ELSE _re_register_scanner(w0, fm), fm)
     IN  run([World EXCEPT !.faults = f], format_mac(mac))
  /\ UNCHANGED <<phase, now, today>>

\* LancomBLEScannerManager.remove_scanner
RemoveScanner(mac, f) ==
  /\ Idle
  /\ mac \in DOMAIN scanners
  /\ LET done(w) ==
           /\ Finish(w, [op |-> "remove_scanner", mac |-> mac,
                         prev |-> prev_of(mac)])
           /\ KeepTrack(w)
     IN  done(remove_scanner([World EXCEPT !.faults = f], mac))
  /\ UNCHANGED <<phase, now, today>>

\* grouped[key] of consolidate_devices, with the "mac" connection values its
\* entries store and the members that carry identifier_for(key)
group_of(w, key) ==
  LET stored(members) ==
        [key |-> key, members |-> members,
         canonical |-> {d \in members : <<DOMAIN_ID, ident_of(key)>>
                                          \in w.devices[d].identifiers},
         values |-> {c[2] : c \in {x \in UNION {w.devices[d].connections :
                                                  d \in members} : x[1] = "mac"}}]
  IN  stored({d \in consolidate_candidates(w) : group_key(w, d) = key})

\* the service consolidate_devices
Consolidate ==
  /\ Idle
  /\ LET groups(keys) == {group_of(World, k) : k \in keys}
         done(r, all) ==
           /\ Finish(r[1],
                     [op |-> "consolidate_devices", ret |-> r[2],
                      before |-> Cardinality(DOMAIN devices),
                      dups |-> {g \in all : Cardinality(g.members) > 1}])
           /\ KeepTrack(r[1])
     IN  done(consolidate_devices(World),
              groups({group_key(World, d) : d \in consolidate_candidates(World)}))
  /\ UNCHANGED <<phase, now, today>>

\* the user deletes a device of this integration entry in the host's user
\* interface (async_remove_config_entry_device)
RemoveConfigEntryDevice(d) ==
  /\ Idle
  /\ d \in DOMAIN devices
  /\ ENTRY_ID \in devices[d].config_entries
  /\ LET done(w) ==
           /\ Finish(w, [op |-> "async_remove_config_entry_device", ret |-> d])
           /\ KeepTrack(w)
     IN  done(async_remove_config_entry_device(World, d))
  /\ UNCHANGED <<phase, now, today>>

\* the service fix_all_names (handle_fix_all_names)
FixAllNames ==
  /\ Idle
  /\ LET done(r) ==
           /\ Finish(r[1], [op |-> "fix_all_names", ret |-> r[2]])
           /\ KeepTrack(r[1])
     IN  done(fix_all_names(World))
  /\ UNCHANGED <<phase, now, today>>

\* a timer of async_call_later fires
TimerFire(t, f) ==
  /\ phase # "new"
  /\ events = <<>>
  /\ t \in timers
  /\ LET done(w) == Finish(w, [op |-> "delayed", ret |-> t.owner])
                      /\ KeepTrack(w)
     IN  done(delayed([World EXCEPT !.faults = f], t))
  /\ UNCHANGED <<phase, now, today>>

\* the bus delivers the oldest registry event to _handle_devreg
HandleEvent(f) ==
  /\ phase = "loaded"
  /\ events # <<>>
  /\ LET done(w, ev) ==
           /\ Finish(w, [op |-> "handle_device_registry_update",
                         ret |-> ev.device_id])
           /\ track' = IF track.dev \notin DOMAIN w.devices THEN NoTrack
                       ELSE IF ev.device_id = track.dev /\ ev.action = "update"
                         THEN [track EXCEPT !.reregs = @ + w.reregs]
                       ELSE track
     IN  done(handle_device_registry_update(
                [World EXCEPT !.events = Tail(@), !.faults = f], Head(events)),
              Head(events))
  /\ UNCHANGED <<phase, now, today>>

\* the MAC of an entry of this integration, <<>> for another entry
mac_of_device(dev) ==
  LET first(own) ==
        IF own = {} THEN <<>> ELSE mac_of_ident((CHOOSE i \in own : TRUE)[2])
  IN  first(own_identifiers(dev))

\* the user renames a device in the host's user interface (name = <<>>: the
\* user clears the name).  An edit of an entry whose persistent name is the
\* default and that had no user name starts being followed; a later edit to a
\* name with the same cleaned form keeps it followed.
UserSetName(d, name) ==
  /\ Idle
  /\ d \in DOMAIN devices
  /\ devices[d].name_by_user # name
  /\ LET follow(mac, cln) ==
           track' =
             IF /\ name # <<>> /\ mac # <<>>
                /\ devices[d].name_by_user = <<>>
                /\ devices[d].name = default_name(mac)
               THEN [dev |-> d, cleaned |-> cln, reregs |-> 0, again |-> FALSE]
             ELSE IF track.dev = d /\ name # <<>> /\ cln = track.cleaned
               THEN [track EXCEPT !.again = TRUE]
             ELSE IF track.dev = d THEN NoTrack
             ELSE track
         on(mac) == follow(mac, clean_name(name, mac))
     IN  /\ Finish(async_update_device(World, d, "name_by_user", name),
                   [op |-> "async_update_device", ret |-> d])
         /\ on(mac_of_device(devices[d]))
  /\ UNCHANGED <<phase, now, today>>

\* the monotonic clock advances by one hour
Tick ==
  /\ now < 1 + MaxClock
  /\ now' = now + 1
  /\ UNCHANGED <<phase, devices, next_dev, events, scanners, cancel_callbacks,
                 scanner_listeners, objs, registered, cancel_calls, notified,
                 attached, timers, today, adverts, last, track>>

\* local midnight passes
DayRoll ==
  /\ today < MaxDay
  /\ today' = today + 1
  /\ UNCHANGED <<phase, devices, next_dev, events, scanners, cancel_callbacks,
                 scanner_listeners, objs, registered, cancel_calls, notified,
                 attached, timers, now, adverts, last, track>>

\* async_unload_entry: manager.unload(), after which the host drops the
\* registry listener
Unload(f) ==
  /\ Idle
  /\ LET done(w) == Finish(w, [op |-> "unload"]) /\ KeepTrack(w)
     IN  done(unload([World EXCEPT !.faults = f]))
  /\ phase' = "unloaded"
  /\ UNCHANGED <<now, today>>

(***************************************************************************)
(* Specifications.                                                         *)
(***************************************************************************)
InitManager ==
  /\ phase = "new"
  /\ events = <<>>
  /\ scanners = <<>>
  /\ cancel_callbacks = <<>>
  /\ scanner_listeners = <<>>
  /\ objs = <<>>
  /\ registered = {}
  /\ cancel_calls = <<>>
  /\ notified = <<>>
  /\ attached = {}
  /\ timers = {}
  /\ now = 1
  /\ today = 0
  /\ adverts = <<>>
  /\ last = [writes |-> 0, reregs |-> 0, raised |-> {}, tcancel |-> 0,
             recorded |-> 0, failed |-> FALSE] @@ NoLast
  /\ track = NoTrack

\* an empty registry: a fresh installation
Init ==
  /\ InitManager
  /\ devices = <<>>
  /\ next_dev = 1

\* the life cycle of the manager: scanners come, are replaced and go
Next ==
  \/ \E c \in {<<>>, <<MAC1_LOWER>>} : SetupEntry(c)
  \/ SensorSetup
  \/ \E m \in {MAC1_DASH, MAC2} : AddAp(m, NoFaults)
  \/ \E m \in {MAC1_LOWER} :
       Webhook([deviceMac |-> m, measurements |-> <<>>], NoFaults)
  \/ \E m \in {MAC1} : ForceScannerName(m, NoFaults)
  \/ \E m \in {MAC1, MAC2} : RemoveScanner(m, NoFaults)
  \/ HandleEvent(NoFaults)
  \/ \E t \in timers : TimerFire(t, NoFaults)
  \/ \E f \in CancelFaults : Unload(f)

Spec == Init /\ [][Next]_vars

\* scanners made by get_or_create_scanner only (configuration, add_ap,
\* webhook), replaced only by the registry-update handler
NextCalls ==
  \/ \E c \in {<<>>, <<MAC1_LOWER>>} : SetupEntry(c)
  \/ SensorSetup
  \/ \E m \in {MAC1_DASH, MAC2} : AddAp(m, NoFaults)
  \/ \E m \in {MAC1_LOWER} :
       Webhook([deviceMac |-> m, measurements |-> <<>>], NoFaults)
  \/ \E m \in {MAC1} : RemoveScanner(m, NoFaults)
  \/ \E d \in DOMAIN devices : \E n \in {NAME_OFFICE} : UserSetName(d, n)
  \/ HandleEvent(NoFaults)
  \/ \E t \in timers : TimerFire(t, NoFaults)

SpecCalls == Init /\ [][NextCalls]_vars

\* a registry entry as an earlier run of the integration left it
stored_entry(mac_upper) ==
  [identifiers |-> {<<DOMAIN_ID, ident_of(mac_upper)>>},
   connections |-> mac_connection_only(mac_upper),
   config_entries |-> {ENTRY_ID},
   name |-> default_name(mac_upper),
   name_by_user |-> <<>>]

\* a fresh installation, or a restart with the entry of one access point
InitNames ==
  /\ InitManager
  /\ devices \in {<<>>, <<stored_entry(MAC1)>>}
  /\ next_dev = Len(devices) + 1

\* the user names, renames and un-names an access point
NextNames ==
  \/ \E c \in {<<>>, <<MAC1_LOWER>>} : SetupEntry(c)
  \/ \E m \in {MAC1_LOWER} :
       Webhook([deviceMac |-> m, measurements |-> <<>>], NoFaults)
  \/ \E d \in DOMAIN devices :
       \E n \in {<<>>, NAME_OFFICE, NAME_OFFICE_MAC, NAME_LAB, NAME_FLUR} :
         UserSetName(d, n)
  \/ HandleEvent(NoFaults)
  \/ \E t \in timers : TimerFire(t, NoFaults)

SpecNames == InitNames /\ [][NextNames]_vars

\* access points report packets while scanners are replaced and days pass
NextStats ==
  \/ \E c \in {<<>>, <<MAC1_LOWER>>} : SetupEntry(c)
  \/ \E ms \in Measurements({0, 1}) :
       Webhook([deviceMac |-> MAC1_LOWER, measurements |-> ms], NoFaults)
  \/ \E m \in {MAC1} : ForceScannerName(m, NoFaults)
  \/ \E d \in DOMAIN devices : \E n \in {NAME_OFFICE} : UserSetName(d, n)
  \/ HandleEvent(NoFaults)
  \/ \E t \in timers : TimerFire(t, NoFaults)
  \/ Tick
  \/ DayRoll

SpecStats == Init /\ [][NextStats]_vars

\* entries per registry an earlier version may have left
MaxLegacy == 3

\* the identifier values and connection sets of earlier versions' entries of
\* the first access point: the canonical identifier or a spelling of the MAC;
\* the MAC connection in lower or upper case, or with a second connection
LegacyEntries ==
  {[identifiers |-> {<<DOMAIN_ID, i>>},
    connections |-> c,
    config_entries |-> {ENTRY_ID},
    name |-> default_name(MAC1),
    name_by_user |-> <<>>] :
     i \in {ident_of(MAC1), MAC1, MAC1_LOWER, MAC1_DASH},
     c \in {{<<"mac", MAC1_LOWER>>}, {<<"mac", MAC1>>},
            {<<"mac", MAC1_LOWER>>, <<"bluetooth", MAC1>>}}}
    \cup {stored_entry(MAC2)}

\* the registries of at most MaxLegacy entries; the host keeps identifiers
\* unique
LegacyRegistries ==
  {r \in UNION {[1..n -> LegacyEntries] : n \in 0..MaxLegacy} :
     \A a, b \in DOMAIN r : a # b => r[a].identifiers \cap r[b].identifiers = {}}

\* an upgrade: the registry holds what earlier versions registered
InitLegacy ==
  /\ InitManager
  /\ devices \in LegacyRegistries
  /\ next_dev = Len(devices) + 1

NextLegacy ==
  \/ \E c \in {<<>>} : SetupEntry(c)
  \/ Consolidate
  \/ \E m \in {MAC1_DASH} : AddAp(m, NoFaults)
  \/ HandleEvent(NoFaults)
  \/ \E t \in timers : TimerFire(t, NoFaults)

SpecLegacy == InitLegacy /\ [][NextLegacy]_vars

(***************************************************************************)
(* Properties of the manager's life cycle (Spec).                          *)
(***************************************************************************)
\* the registry entries that carry the identifier of a MAC
entries_of(mac) ==
  {d \in DOMAIN devices : <<DOMAIN_ID, ident_of(mac)>> \in devices[d].identifiers}

\* the scanner objects of a MAC that hold an active host registration
registered_for(mac) == {o \in registered : objs[o].mac_upper = mac}

\* C1: after every get_or_create_scanner call the manager holds exactly one
\* scanner for the canonical MAC, that scanner is the only one registered with
\* the host for the MAC, the registry holds exactly one entry with the MAC's
\* identifier, and a call for a MAC that already had a scanner returns that
\* scanner.
C1_GetOrCreateIdempotent ==
  last.op = "get_or_create_scanner" =>
    /\ last.mac \in DOMAIN scanners
    /\ scanners[last.mac] = last.ret
    /\ registered_for(last.mac) = {last.ret}
    /\ Cardinality(entries_of(last.mac)) = 1
    /\ last.prev # 0 => last.ret = last.prev

\* a call with another spelling of a MAC that already has a scanner, while a
\* second access point is known too
C1_Witness ==
  /\ last.op = "get_or_create_scanner"
  /\ last.mac = MAC1
  /\ last.prev # 0
  /\ MAC2 \in DOMAIN scanners

\* the armed timers of a scanner object
timers_of(o) == {t \in timers : t.owner = o}

SelfKinds == {"lancom_self", "lancom_self_rename", "lancom_self_refresh"}

\* C3: a refresh timer is pending after every self-advertisement of any kind
\* (immediate, rename, or the refresh the timer itself produces).
C3_TimerPendingAfterSelfAdvert ==
  \A i \in 1..Len(adverts) :
    adverts[i].details \in SelfKinds => timers_of(adverts[i].scanner) # {}

\* C8: after unload every scanner the manager registered has had its cancel
\* handle called exactly once, none is still registered, and the scanner map,
\* the handle map and the listener list are empty; no handle is ever called
\* twice.
C8_UnloadCancelsAll ==
  /\ \A o \in 1..Len(objs) : cancel_calls[o] <= 1
  /\ phase = "unloaded" =>
       /\ registered = {}
       /\ \A o \in 1..Len(objs) : cancel_calls[o] = 1
       /\ DOMAIN scanners = {}
       /\ DOMAIN cancel_callbacks = {}
       /\ scanner_listeners = <<>>

\* an unload of two registered scanners during which one cancel call raised
C8_Witness ==
  /\ last.op = "unload"
  /\ last.raised # {}
  /\ Len(objs) = 2
  /\ \A o \in 1..Len(objs) : cancel_calls[o] = 1

\* C9: while a listener is subscribed, the scanner the manager holds for a MAC
\* is one the listener was passed (or that existed when the sensor platform
\* was set up), and no scanner is passed to a listener twice.
C9_ListenersSeeEveryScanner ==
  /\ \A o \in 1..Len(objs) : notified[o] <= 1
  /\ scanner_listeners # <<>> =>
       \A m \in DOMAIN scanners : scanners[m] \in attached

(***************************************************************************)
(* Properties of the name policy (SpecNames).                              *)
(***************************************************************************)
\* C4: a user name set on an entry whose persistent name is the default has
\* caused, once its registry events are handled, exactly one re-registration
\* and the persistent name is the cleaned user name; a later edit to a name
\* with the same cleaned form adds no re-registration.
C4_OneReRegistration ==
  (track.dev # 0 /\ events = <<>>) =>
    /\ track.reregs = 1
    /\ devices[track.dev].name = track.cleaned

\* the events of a second edit to the same cleaned name have been handled
C4_Witness ==
  /\ track.dev # 0
  /\ track.again
  /\ events = <<>>
  /\ last.op = "handle_device_registry_update"
  /\ track.reregs = 1

\* C5: once the registry events are handled, the persistent name of every
\* entry of this integration that has a user name is the cleaned user name.
C5_NameFollowsUserName ==
  events = <<>> =>
    \A d \in DOMAIN devices :
      LET mac == mac_of_device(devices[d])
      IN  (mac # <<>> /\ devices[d].name_by_user # <<>>) =>
            devices[d].name = clean_name(devices[d].name_by_user, mac)

\* C6: once the registry events are handled, every entry of this integration
\* without a user name has the persistent name "Lancom AP <MAC>".
C6_DefaultNameWithoutUserName ==
  (phase = "loaded" /\ events = <<>>) =>
    \A d \in DOMAIN devices :
      LET mac == mac_of_device(devices[d])
      IN  (mac # <<>> /\ devices[d].name_by_user = <<>>) =>
            devices[d].name = default_name(mac)

(***************************************************************************)
(* Properties of the packet statistics (SpecStats).                        *)
(***************************************************************************)
\* C10: while the local date stays the same, the packets_today of the scanner
\* the manager holds for a MAC (a count of the current date) does not
\* decrease in any step.
C10_PacketsTodayMonotonic ==
  [][\A m \in (DOMAIN scanners) \cap (DOMAIN scanners') :
       (today' = today /\ objs[scanners[m]].today_date = today) =>
         objs'[scanners'[m]].packets_today >= objs[scanners[m]].packets_today]_vars

(***************************************************************************)
(* Properties of the registry maintenance (SpecLegacy).                    *)
(***************************************************************************)
\* the entries with an identifier of this integration
owned_devices == {d \in DOMAIN devices :
                    \E i \in devices[d].identifiers : i[1] = DOMAIN_ID}

\* the MAC connection values of an entry, in upper case
mac_values(d) ==
  {upper(c[2]) : c \in {x \in devices[d].connections : x[1] = "mac"}}

\* C7: when consolidate_devices has returned, no two entries of this
\* integration carry the same MAC connection value (in any letter case), the
\* entry left for a MAC that had duplicates has exactly the connection set
\* {("mac", lower-case MAC)}, and the returned count is the number of entries
\* that were deleted.
C7_ConsolidatePostcondition ==
  last.op = "consolidate_devices" =>
    /\ \A d1, d2 \in owned_devices :
         mac_values(d1) \cap mac_values(d2) # {} => d1 = d2
    /\ \A g \in last.dups :
         /\ \E d \in owned_devices : g.key \in mac_values(d)
         /\ \A d \in owned_devices :
              g.key \in mac_values(d) =>
                devices[d].connections = mac_connection_only(g.key)
    /\ last.ret = last.before - Cardinality(DOMAIN devices)

\* three duplicates of one MAC whose stored connection values differed in
\* letter case were consolidated to one entry
C7_Witness ==
  /\ last.op = "consolidate_devices"
  /\ last.ret = 2
  /\ \E g \in last.dups : Cardinality(g.members) = 3 /\ Cardinality(g.values) = 2
  /\ Cardinality(owned_devices) = 1

(***************************************************************************)
(* Properties of the day counter (SpecStats).                              *)
(***************************************************************************)
\* LancomBLERemoteScanner.packets_today, as LancomBLEPacketsTodaySensor
\* .native_value reads it
packets_today(o) == objs[o].packets_today

\* the packets scanner object o recorded on local date d
recorded_on_day(o, d) ==
  Cardinality({i \in 1..Len(objs[o].recorded_on) : objs[o].recorded_on[i] = d})

\* C11: whenever packets_today of a scanner is read, it equals the number of
\* packets the scanner recorded on the current local date; after the date has
\* changed and before a packet of the new date it reads 0.
C11_PacketsTodayIsTodaysCount ==
  \A o \in 1..Len(objs) : packets_today(o) = recorded_on_day(o, today)

(***************************************************************************)
(* Properties of the detection clock (SpecClock).                          *)
(***************************************************************************)
\* max(a, b)
max(a, b) == IF a >= b THEN a ELSE b

\* the mutant of time_since_last_detection that does not clamp
time_since_unclamped(o) ==
  IF objs[o].last_detection_monotonic <= 0 THEN NEVER_SEEN
  ELSE now - objs[o].last_detection_monotonic

\* LancomBLERemoteScanner.time_since_last_detection, read in the current state
time_since_last_detection(o) ==
  IF objs[o].last_detection_monotonic <= 0 THEN NEVER_SEEN
  ELSE max(0, now - objs[o].last_detection_monotonic)

\* manager.get_or_create_scanner(mac) called directly, with or without the
\* self-advertisement (inject_self defaults to False)
GetOrCreate(mac, inject_self) ==
  /\ Idle
  /\ LET done(w, fm) ==
           /\ Finish(w, [op |-> "get_or_create_scanner", mac |-> fm,
                         ret |-> ret_of(w, fm), prev |-> prev_of(fm)])
           /\ KeepTrack(w)
     IN  done(get_or_create_scanner(World, mac, inject_self), format_mac(mac))
  /\ UNCHANGED <<phase, now, today>>

\* a clock artifact: the next reading of the clock is below the previous one
ClockArtifact ==
  /\ now > 1
  /\ now' \in 1..(now - 1)
  /\ UNCHANGED <<phase, devices, next_dev, events, scanners, cancel_callbacks,
                 scanner_listeners, objs, registered, cancel_calls, notified,
                 attached, timers, today, adverts, last, track>>

\* scanners detect, or never detect, while the clock advances or jumps back
NextClock ==
  \/ \E c \in {<<>>} : SetupEntry(c)
  \/ \E b \in {FALSE} : GetOrCreate(MAC1, b)
  \/ \E ms \in Measurements({1}) :
       Webhook([deviceMac |-> MAC2, measurements |-> ms], NoFaults)
  \/ HandleEvent(NoFaults)
  \/ \E t \in timers : TimerFire(t, NoFaults)
  \/ Tick
  \/ ClockArtifact

SpecClock == Init /\ [][NextClock]_vars

\* the scanner object has injected at least one advertisement (_inject stores
\* every advertisement in _discovered_devices)
has_injected(o) == objs[o].discovered_devices # <<>>

\* C12: time_since_last_detection() is never negative; it is the sentinel 9999
\* on a scanner that has injected no advertisement, and max(0, now - last
\* detection) after an injection, also when the clock reads less than the
\* stored last-detection time.
C12_TimeSinceLastDetection ==
  \A o \in 1..Len(objs) :
    /\ time_since_last_detection(o) >= 0
    /\ ~has_injected(o) => time_since_last_detection(o) = NEVER_SEEN
    /\ has_injected(o) =>
         time_since_last_detection(o) =
           IF now < objs[o].last_detection_monotonic THEN 0
           ELSE now - objs[o].last_detection_monotonic

\* one scanner has never injected, another injected at a clock reading above
\* the current one and reads 0
C12_Witness ==
  \E o1, o2 \in 1..Len(objs) :
    /\ ~has_injected(o1)
    /\ time_since_last_detection(o1) = NEVER_SEEN
    /\ has_injected(o2)
    /\ now < objs[o2].last_detection_monotonic
    /\ time_since_last_detection(o2) = 0

(***************************************************************************)
(* Properties of the webhook ingest (SpecHook).                            *)
(***************************************************************************)
\* a measurement that is no JSON object (a number, a text, a list)
NotAnObject ==
  [is_object |-> FALSE, deviceAddress |-> <<>>,
   rssi |-> [t |-> "none", v |-> 0], name |-> <<>>, advertisingData |-> <<>>]

\* the measurements of the payloads: a well-formed one, one without address,
\* one whose rssi is a text that is no number (kind "text"; the field v is
\* the number of an rssi of kind "int" only), one that is no object
HookMeasurements ==
  {Measurement(PEER, [t |-> "int", v |-> -60]),
   Measurement(<<>>, [t |-> "int", v |-> -60]),
   Measurement(MAC2, [t |-> "text", v |-> 0]),
   NotAnObject}

\* the lists of at most MaxPackets measurements
HookLists ==
  UNION {[1..n -> HookMeasurements] : n \in 0..MaxPackets}

\* access points post payloads with and without deviceMac, with well-formed and
\* malformed measurements
NextHook ==
  \/ \E c \in {<<>>, <<MAC1_LOWER>>} : SetupEntry(c)
  \/ SensorSetup
  \/ \E mac \in {<<>>, MAC1_LOWER} : \E ms \in HookLists :
       Webhook([deviceMac |-> mac, measurements |-> ms], NoFaults)
  \/ HandleEvent(NoFaults)
  \/ \E t \in timers : TimerFire(t, NoFaults)

SpecHook == Init /\ [][NextHook]_vars

\* C13: a webhook payload without deviceMac (absent, null or empty) changes
\* nothing and raises nothing: no scanner is created, registered or replaced,
\* no registry entry is created or written, no event is fired, no listener is
\* notified, no timer is armed or cancelled, no packet is counted and no
\* advertisement is injected.
C13_NoDeviceMacNoEffect ==
  [][last'.hook = "no deviceMac" =>
       /\ UNCHANGED <<phase, devices, next_dev, events, scanners,
                      cancel_callbacks, scanner_listeners, objs, registered,
                      cancel_calls, notified, attached, timers, now, today>>
       /\ adverts' = <<>>
       /\ last'.writes = 0 /\ last'.recorded = 0 /\ last'.tcancel = 0
       /\ ~last'.failed]_vars

\* a payload without deviceMac arrived while the first access point had a
\* scanner, a registry entry and the sensor platform listening
C13_Witness ==
  /\ last.hook = "no deviceMac"
  /\ MAC1 \in DOMAIN scanners
  /\ scanner_listeners # <<>>
  /\ DOMAIN devices # {}

\* a measurement the loop of inject_ble can use as it is
well_formed(m) == m.is_object /\ m.deviceAddress # <<>> /\ m.rssi.t = "int"

\* C14: malformed measurements are skipped one by one: of the measurements of
\* an ingested payload, every well-formed one is counted as a packet and
\* injected as a peer advertisement, whatever stands before it in the list,
\* and no exception leaves the ingest.
C14_MalformedItemsSkipped ==
  last.hook = "ingested" =>
    LET good == {i \in 1..Len(last.measurements) :
                   well_formed(last.measurements[i])}
    IN  /\ ~last.failed
        /\ last.recorded >= Cardinality(good)
        /\ \A i \in good :
             \E j \in 1..Len(adverts) :
               /\ adverts[j].details = "lancom"
               /\ adverts[j].address =
                    format_mac(last.measurements[i].deviceAddress)

(***************************************************************************)
(* Properties of the base name (SpecClean).                                *)
(***************************************************************************)
\* the user gives an access point names with and without MAC-shaped parts
NextClean ==
  \/ \E c \in {<<MAC1_LOWER>>} : SetupEntry(c)
  \/ \E d \in DOMAIN devices :
       \E n \in {<<>>, NAME_OFFICE_MAC, NAME_HEX, NAME_DASHED, NAME_JOINED} :
         UserSetName(d, n)
  \/ \E m \in {MAC1} : ForceScannerName(m, NoFaults)
  \/ HandleEvent(NoFaults)
  \/ \E t \in timers : TimerFire(t, NoFaults)

SpecClean == InitNames /\ [][NextClean]_vars

\* MAC_ANY_PATTERN.search(s): s has a MAC-shaped substring
has_mac_shape(s) == \E i \in 1..Len(s) : mac_match_len(s, i) > 0

\* the user-assigned name of the registry entry of a MAC, <<>> without one
user_name_of(mac) ==
  IF entries_of(mac) = {} THEN <<>>
  ELSE devices[CHOOSE d \in entries_of(mac) : TRUE].name_by_user

\* C15: the base name is always MAC-free: the name a scanner holds and the
\* name of every self, rename and refresh advertisement has no MAC-shaped
\* substring (six colon- or hyphen-delimited hex pairs, 12 contiguous hex
\* digits), and is exactly "Lancom AP" when the entry has no user name.
C15_BaseNameMacFree ==
  /\ \A o \in 1..Len(objs) : ~has_mac_shape(objs[o].friendly_base_name)
  /\ \A j \in 1..Len(adverts) :
       adverts[j].details \in SelfKinds =>
         /\ ~has_mac_shape(adverts[j].name)
         /\ user_name_of(objs[adverts[j].scanner].mac_upper) = <<>> =>
              adverts[j].name = BaseLabel

(***************************************************************************)
(* Properties of the MAC normalisation (SpecFormat).                       *)
(***************************************************************************)
\* the 12 hex digits of a MAC
mac_digits(mac) == filter_chars(mac, HexChars)

\* six pairs of digits with a separator text (possibly empty) after each of
\* the first five
RECURSIVE spell(_, _)
spell(digits, seps) ==
  IF seps = <<>> THEN digits
  ELSE <<digits[1], digits[2]>> \o Head(seps)
         \o spell(Tail(Tail(digits)), Tail(seps))

\* the separator styles: colon, hyphen, none and every mixture of them
SeparatorStyles == [1..(MacGroups - 1) -> {<<":">>, <<"-">>, <<>>}]

\* the styles with one separator, or two in alternation
PlainStyles ==
  {seps \in SeparatorStyles :
     seps[1] = seps[3] /\ seps[3] = seps[5] /\ seps[2] = seps[4]}

\* the spellings of a MAC: every separator style in upper case, the plain
\* styles in lower case and with the first pair only in lower case
Spellings(mac) ==
  {spell(mac_digits(mac), seps) : seps \in SeparatorStyles}
    \cup {spell(lower(mac_digits(mac)), seps) : seps \in PlainStyles}
    \cup {spell(lower(SubSeq(mac_digits(mac), 1, 2))
                  \o SubSeq(mac_digits(mac), 3, MacHexLen), seps) :
            seps \in PlainStyles}

Spellings1 == Spellings(MAC1)

\* an access point is added again and again, under every spelling of its MAC
NextFormat ==
  \/ \E c \in {<<>>} : SetupEntry(c)
  \/ \E s \in Spellings1 : AddAp(s, NoFaults)
  \/ HandleEvent(NoFaults)
  \/ \E t \in timers : TimerFire(t, NoFaults)

SpecFormat == Init /\ [][NextFormat]_vars

\* C16: every input with exactly 12 hex digits is normalised to the canonical
\* upper-case colon form of those digits, whatever its separators and case,
\* so every spelling of a MAC reaches the same key of the scanner map.
C16_NormalizeCanonical ==
  last.raw \in Spellings1 =>
       /\ last.op = "get_or_create_scanner"
       /\ last.mac = MAC1
       /\ DOMAIN scanners = {MAC1}
       /\ last.ret = scanners[MAC1]

\* a second spelling of the first MAC, in lower case and with mixed or no
\* separators, found the scanner an earlier spelling had created
C16_Witness ==
  /\ last.raw \in Spellings1 \ {MAC1, MAC1_LOWER, MAC1_DASH}
  /\ last.raw = lower(last.raw)
  /\ last.prev # 0
  /\ last.ret = last.prev

(***************************************************************************)
(* Properties of the identifiers (SpecIdent).                              *)
(***************************************************************************)
\* the pairs of hex digits the MACs below are made of
PairChoices == {<<"0","A">>, <<"F","9">>}

\* canonical MACs: six pairs, upper case, joined by colons
CanonMacs ==
  {pair_up(p[1] \o p[2] \o p[3] \o p[4] \o p[5] \o p[6]) :
     p \in [1..MacGroups -> PairChoices]}

\* one access point with one of the canonical MACs is added, named by the
\* user and un-named again
NextIdent ==
  \/ \E c \in {<<>>} : SetupEntry(c)
  \/ \E m \in CanonMacs : scanners = <<>> /\ AddAp(m, NoFaults)
  \/ \E d \in DOMAIN devices : \E n \in {<<>>, NAME_OFFICE} : UserSetName(d, n)
  \/ HandleEvent(NoFaults)
  \/ \E t \in timers : TimerFire(t, NoFaults)

SpecIdent == Init /\ [][NextIdent]_vars

\* an identifier value as identifier_for writes it: the prefix and six pairs
\* of lower-case hex digits joined by underscores
well_formed_identifier(v) ==
  /\ startswith(v, IdentPrefix)
  /\ Len(v) = Len(IdentPrefix) + MacHexLen + MacGroups - 1
  /\ \A k \in 1..(MacHexLen + MacGroups - 1) :
       IF k % 3 = 0 THEN v[Len(IdentPrefix) + k] = "_"
       ELSE /\ v[Len(IdentPrefix) + k] \in HexChars
            /\ v[Len(IdentPrefix) + k] = lower_char(v[Len(IdentPrefix) + k])

\* C17: identifier_for and the recovery of the MAC from an identifier are
\* mutually inverse: the recovery of identifier_for(m) is m for the canonical
\* MAC m of every scanner, and identifier_for of the recovered MAC is i for
\* every well-formed identifier i of a registry entry; the registry-update
\* handler therefore reaches the scanner of the entry's MAC.
C17_IdentifierRoundTrip ==
  /\ \A m \in DOMAIN scanners :
       /\ well_formed_identifier(identifier_for(m))
       /\ mac_from_identifier(identifier_for(m)) = m
  /\ \A d \in DOMAIN devices : \A i \in own_identifiers(devices[d]) :
       well_formed_identifier(i[2]) =>
         identifier_for(mac_from_identifier(i[2])) = i[2]
  /\ (last.op = "handle_device_registry_update" /\ scanners # <<>>) =>
       \A j \in 1..Len(adverts) :
         objs[adverts[j].scanner].mac_upper \in DOMAIN scanners

\* the handler of an update event recovered a MAC with letters and digits
\* from the entry's identifier and advertised on the scanner of that MAC
C17_Witness ==
  /\ last.op = "handle_device_registry_update"
  /\ adverts # <<>>
  /\ \E m \in DOMAIN scanners :
       /\ m \in CanonMacs /\ m # lower(m)
       /\ \E d \in DOMAIN devices :
            /\ <<DOMAIN_ID, identifier_for(m)>> \in devices[d].identifiers
            /\ devices[d].name_by_user = NAME_OFFICE
       /\ \A j \in 1..Len(adverts) : objs[adverts[j].scanner].mac_upper = m

(***************************************************************************)
(* Properties of the persistent name (SpecKeep).                           *)
(***************************************************************************)
\* sync_existing_devices from device id d on; pick[d] is the identifier of
\* device d the inner loop reaches first (it breaks after the first one).
\* The result is the state and the count.
RECURSIVE sync_from(_, _, _, _)
sync_from(w, count, d, pick) ==
  LET mac(i) == IF i[1] = DOMAIN_ID THEN mac_of_ident(i[2]) ELSE <<>>
      ensure(m) ==
        IF w.devices[d].name_by_user = <<>>
          THEN ensure_device_registry_default_name(w, m)
          ELSE w
      visit(m) ==
        IF m = <<>> THEN sync_from(w, count, d + 1, pick)
        ELSE sync_from(ensure(m), count + 1, d + 1, pick)
  IN  IF d >= w.next_dev THEN <<w, count>>
      ELSE IF d \notin DOMAIN w.devices THEN sync_from(w, count, d + 1, pick)
      ELSE visit(mac(pick[d]))

sync_existing_devices(w, pick) == sync_from(w, 0, 1, pick)

\* the orders in which the identifier sets of the entries can be iterated
IdentifierPicks ==
  {p \in [DOMAIN devices -> UNION {devices[d].identifiers : d \in DOMAIN devices}] :
     \A d \in DOMAIN devices : p[d] \in devices[d].identifiers}

\* the service sync_registry (handle_sync_registry)
SyncRegistry(pick) ==
  /\ Idle
  /\ LET done(r) ==
           /\ Finish(r[1], [op |-> "sync_existing_devices", ret |-> r[2]])
           /\ KeepTrack(r[1])
     IN  done(sync_existing_devices(World, pick))
  /\ UNCHANGED <<phase, now, today>>

\* the entries of the first access point a restart can find: registered under
\* the canonical identifier or, by an earlier version, under the MAC itself;
\* named by the user or not; the persistent name the default or the user's
KeptEntries ==
  {[identifiers |-> {<<DOMAIN_ID, i>>},
    connections |-> mac_connection_only(MAC1),
    config_entries |-> {ENTRY_ID},
    name |-> n,
    name_by_user |-> u] :
     i \in {ident_of(MAC1), MAC1},
     n \in {default_name(MAC1), NAME_OFFICE},
     u \in {<<>>, NAME_OFFICE}}

InitKeep ==
  /\ InitManager
  /\ devices \in {<<>>} \cup {<<e>> : e \in KeptEntries}
  /\ next_dev = Len(devices) + 1

\* scanners are created, names are synchronised and the user names the
\* access point
NextKeep ==
  \/ \E c \in {<<>>, <<MAC1_LOWER>>} : SetupEntry(c)
  \/ \E m \in {MAC1_DASH} : AddAp(m, NoFaults)
  \/ \E p \in IdentifierPicks : SyncRegistry(p)
  \/ \E d \in DOMAIN devices : \E n \in {<<>>, NAME_OFFICE} : UserSetName(d, n)
  \/ HandleEvent(NoFaults)
  \/ \E t \in timers : TimerFire(t, NoFaults)

SpecKeep == InitKeep /\ [][NextKeep]_vars

\* f"Lancom AP {mac_upper}" for one of the MACs
is_generic_default(n) == \E m \in KnownMacs : n = default_name(m)

\* a second ensure_device_registry_default_name in a row writes nothing
ensure_twice_writes_once(m) ==
  LET again(w1) == ensure_device_registry_default_name(w1, m).writes = w1.writes
  IN  again(ensure_device_registry_default_name(World, m))

\* C18: no operation overwrites the persistent name of a registry entry that
\* has a user-assigned name with the generic MAC-qualified default, and a
\* second ensure_default_name in a row performs no registry write.
C18_UserNamedEntryKeepsName ==
  /\ [](\A m \in {MAC1, MAC2} : ensure_twice_writes_once(m))
  /\ [][\A d \in (DOMAIN devices) \cap (DOMAIN devices') :
          (devices[d].name_by_user # <<>> /\ devices'[d].name # devices[d].name)
            => ~is_generic_default(devices'[d].name)]_vars

(***************************************************************************)
(* Properties of the survivor of a consolidation (SpecLegacy).             *)
(***************************************************************************)
\* the groups consolidate_devices forms in the current state
groups_now ==
  {group_of(World, k) :
     k \in {group_key(World, d) : d \in consolidate_candidates(World)}}

\* C19: of several entries of one MAC, consolidate_devices keeps the entry
\* with the identifier identifier_for(MAC) and deletes all the others,
\* wherever that entry stands in the registry; without such an entry it
\* keeps one of the others.  The entry of a MAC with a single entry is neither
\* deleted nor modified.
C19_CanonicalEntrySurvives ==
  [][last'.op = "consolidate_devices" =>
       \A g \in groups_now :
         IF Cardinality(g.members) = 1
           THEN \A d \in g.members :
                  d \in DOMAIN devices' /\ devices'[d] = devices[d]
           ELSE /\ Cardinality(g.members \cap DOMAIN devices') = 1
                /\ g.canonical # {} =>
                     g.members \cap DOMAIN devices' = g.canonical]_vars

\* a consolidation kept the entry with the canonical identifier although an
\* entry without it stood before it in the registry, and left the single
\* entry of another MAC alone
C19_Witness ==
  /\ last.op = "consolidate_devices"
  /\ \E g \in last.dups :
       /\ g.canonical # {}
       /\ \E d \in g.members : \A c \in g.canonical : d < c
       /\ g.members \cap DOMAIN devices = g.canonical
  /\ \E d \in DOMAIN devices : devices[d] = stored_entry(MAC2)

(***************************************************************************)
(* Properties of the rolling window (SpecWindow).                          *)
(***************************************************************************)
\* no packet arrives for 24 hours
LongPause ==
  /\ now <= 1 + MaxClock
  /\ now' = now + WINDOW_24H
  /\ UNCHANGED <<phase, devices, next_dev, events, scanners, cancel_callbacks,
                 scanner_listeners, objs, registered, cancel_calls, notified,
                 attached, timers, today, adverts, last, track>>

\* an access point reports packets, one or two per payload, with pauses of
\* hours and of a day between them
NextWindow ==
  \/ \E c \in {<<MAC1_LOWER>>} : SetupEntry(c)
  \/ \E ms \in Measurements({1, 2}) :
       Webhook([deviceMac |-> MAC1_LOWER, measurements |-> ms], NoFaults)
  \/ HandleEvent(NoFaults)
  \/ \E t \in timers : TimerFire(t, NoFaults)
  \/ Tick
  \/ DayRoll
  \/ LongPause

SpecWindow == Init /\ [][NextWindow]_vars

\* the deque _packet_times of a scanner object
packet_times(o) == objs[o].packet_times

\* C20: with a clock that never goes back, after every _record_packet the
\* deque of packet times is in non-decreasing order and holds no time more
\* than 24 hours before that call (the time of its last entry); a call
\* removes a prefix of the deque only and never the entry it appended.
C20_WindowOrderedAndPruned ==
  /\ [](\A o \in 1..Len(objs) :
          /\ \A i, j \in 1..Len(packet_times(o)) :
               i <= j => packet_times(o)[i] <= packet_times(o)[j]
          /\ \A i \in 1..Len(packet_times(o)) :
               packet_times(o)[i] >=
                 packet_times(o)[Len(packet_times(o))] - WINDOW_24H)
  /\ [][\A o \in 1..Len(objs) :
          Len(objs'[o].recorded_on) > Len(objs[o].recorded_on) =>
            LET calls == Len(objs'[o].recorded_on) - Len(objs[o].recorded_on)
                all   == packet_times(o) \o [k \in 1..calls |-> now]
                kept  == objs'[o].packet_times
            IN  /\ Len(kept) >= 1 /\ Len(kept) <= Len(all)
                /\ kept[Len(kept)] = now
                /\ kept = SubSeq(all, Len(all) - Len(kept) + 1, Len(all))]_vars

\* a packet recorded after a pause removed the entry of 25 hours before and
\* kept the entry of 24 hours before; the day counter counts the new packet
C20_Witness ==
  \E o \in 1..Len(objs) :
    /\ Len(objs[o].recorded_on) = 3
    /\ packet_times(o) = <<now - WINDOW_24H, now>>
    /\ objs[o].packets_today = 1

(***************************************************************************)
(* Properties of the day counter against the window (SpecWindow).          *)
(***************************************************************************)
\* the _record_packet calls of scanner object o since the call that detected
\* the last change of the local date, that call included (all of them when no
\* change was detected since construction); the local date never goes back
recorded_since_roll(o) ==
  Cardinality({i \in 1..Len(objs[o].recorded_on) :
                 objs[o].recorded_on[i] = objs[o].today_date})

\* C21: packets_today of a scanner object equals the number of its
\* _record_packet calls since the last detected change of the local date (or
\* since construction); every call adds exactly 1 after the conditional reset
\* to 0, so the first packet of a new date leaves 1, and the pruning of the
\* 24-hour deque does not change the counter.
C21_PacketsTodayCountsCalls ==
  /\ [](\A o \in 1..Len(objs) : packets_today(o) = recorded_since_roll(o))
  /\ [][\A o \in 1..Len(objs) :
          LET calls == Len(objs'[o].recorded_on) - Len(objs[o].recorded_on)
              start == IF calls > 0 /\ today # objs[o].today_date THEN 0
                       ELSE objs[o].packets_today
          IN  objs'[o].packets_today = start + calls]_vars

\* the first packet of a new date left the counter at 1 although the scanner
\* had counted before, and the same call pruned the deque
C21_Witness ==
  \E o \in 1..Len(objs) :
    /\ objs[o].today_date = today /\ today > 0
    /\ Len(objs[o].recorded_on) >= 2
    /\ objs[o].recorded_on[1] < today
    /\ packets_today(o) = 1
    /\ Len(packet_times(o)) = 1

(***************************************************************************)
(* Properties of the ingest of well-formed payloads (SpecIngest).          *)
(***************************************************************************)
\* advertisingData texts: one that decodes and one that does not
ADV_HEX == <<"0","2","0","1","0","6">>

ADV_BAD == <<"0","2","z","z">>

\* a measurement with advertisingData
WithAdv(m, adv_hex) == [m EXCEPT !.advertisingData = adv_hex]

\* the measurement records of the payloads: with an address, without one,
\* with advertisingData that decodes and with advertisingData that does not
IngestRecords ==
  {Measurement(PEER, [t |-> "int", v |-> -60]),
   Measurement(<<>>, [t |-> "int", v |-> -60]),
   WithAdv(Measurement(MAC2, [t |-> "int", v |-> -61]), ADV_HEX),
   WithAdv(Measurement(MAC1_DASH, [t |-> "int", v |-> -62]), ADV_BAD)}

\* the lists of at most MaxPackets measurements all of which are records
IngestLists ==
  {l \in UNION {[1..n -> IngestRecords \cup {NotAnObject}] : n \in 0..MaxPackets} :
     \A i \in 1..Len(l) : l[i] \in IngestRecords}

\* access points post lists of measurement records
NextIngest ==
  \/ \E c \in {<<>>} : SetupEntry(c)
  \/ \E ms \in IngestLists :
       Webhook([deviceMac |-> MAC1_LOWER, measurements |-> ms], NoFaults)
  \/ HandleEvent(NoFaults)
  \/ \E t \in timers : TimerFire(t, NoFaults)
  \/ DayRoll

SpecIngest == Init /\ [][NextIngest]_vars

\* the addresses of the records of a list that carry one, in canonical form
\* and in the order of the list
RECURSIVE addressed(_)
addressed(ms) ==
  IF ms = <<>> THEN <<>>
  ELSE IF Head(ms).deviceAddress = <<>> THEN addressed(Tail(ms))
  ELSE <<format_mac(Head(ms).deviceAddress)>> \o addressed(Tail(ms))

\* the addresses of the peer advertisements the last operation injected, in
\* their order
RECURSIVE peer_adverts(_)
peer_adverts(advs) ==
  IF advs = <<>> THEN <<>>
  ELSE IF Head(advs).details = "lancom"
    THEN <<Head(advs).address>> \o peer_adverts(Tail(advs))
  ELSE peer_adverts(Tail(advs))

\* C22: the ingest of a list of measurement records counts and injects one
\* for one: the packets recorded and the peer advertisements injected are,
\* in number and order, the records with a non-empty deviceAddress (a record
\* without address is neither counted nor injected, a record with undecodable
\* advertisingData is counted and injected), no exception leaves the ingest,
\* and no operation counts a self-advertisement as a packet.
C22_CountsAndInjectsOneForOne ==
  /\ last.recorded = Len(peer_adverts(adverts))
  /\ last.hook = "ingested" =>
       /\ ~last.failed
       /\ peer_adverts(adverts) = addressed(last.measurements)
       /\ last.recorded = Len(addressed(last.measurements))

\* a payload of a record without address and a record with undecodable
\* advertisingData was ingested together with the self-advertisement of a new
\* scanner
C22_Witness ==
  /\ last.hook = "ingested"
  /\ Len(last.measurements) = 2
  /\ last.measurements[1].deviceAddress = <<>>
  /\ unhexlify_raises(last.measurements[2].advertisingData)
  /\ last.recorded = 1
  /\ Len(adverts) = 2

(***************************************************************************)
(* Properties of the signal strength (SpecRssi).                           *)
(***************************************************************************)
\* an rssi value of kind t with the number v or the text s
Rssi(t, v, s) == [t |-> t, v |-> v, s |-> s]

\* rssi values as access points send them, each with the signal strength the
\* peer advertisement is to carry: integers, integer texts (also with blanks
\* around), the sentinel as integer, as text and as float, floats and float
\* texts (rounded, a tie to the even integer), null, texts that are no
\* number, a float that is no number, a value of another type
RssiCases ==
  {[value |-> Rssi("none", 0, <<>>), expect |-> -70],
   [value |-> Rssi("int", -60, <<>>), expect |-> -60],
   [value |-> Rssi("int", 0, <<>>), expect |-> 0],
   [value |-> Rssi("int", -127, <<>>), expect |-> -70],
   [value |-> Rssi("str", 0, <<"-","6","1">>), expect |-> -61],
   [value |-> Rssi("str", 0, <<" ","-","6","2"," ">>), expect |-> -62],
   [value |-> Rssi("str", 0, <<"-","1","2","7">>), expect |-> -70],
   [value |-> Rssi("str", 0, <<"-","6","3",".","5">>), expect |-> -64],
   [value |-> Rssi("str", 0, <<"-","6","4",".","5">>), expect |-> -64],
   [value |-> Rssi("str", 0, <<"-","1","2","7",".","0">>), expect |-> -70],
   [value |-> Rssi("str", 0, <<>>), expect |-> -70],
   [value |-> Rssi("str", 0, <<"n","/","a">>), expect |-> -70],
   [value |-> Rssi("str", 0, <<"n","a","n">>), expect |-> -70],
   [value |-> Rssi("str", 0, <<"-","6","5","d","B","m">>), expect |-> -70],
   [value |-> Rssi("float", -665, <<>>), expect |-> -66],
   [value |-> Rssi("float", -1270, <<>>), expect |-> -70],
   [value |-> Rssi("nan", 0, <<>>), expect |-> -70],
   [value |-> Rssi("list", 0, <<>>), expect |-> -70]}

\* the signal strength the peer advertisement of an rssi value is to carry
expected_rssi(value) == (CHOOSE c \in RssiCases : c.value = value).expect

\* the payloads: one measurement of the peer with one of the rssi values
RssiLists == {<<Measurement(PEER, c.value)>> : c \in RssiCases}

\* an access point reports a peer with every kind of rssi value
NextRssi ==
  \/ \E c \in {<<>>} : SetupEntry(c)
  \/ \E ms \in RssiLists :
       Webhook([deviceMac |-> MAC1_LOWER, measurements |-> ms], NoFaults)
  \/ HandleEvent(NoFaults)
  \/ \E t \in timers : TimerFire(t, NoFaults)
  \/ DayRoll

SpecRssi == Init /\ [][NextRssi]_vars

\* the peer advertisements the last operation injected
peer_rssi == {adverts[j].rssi : j \in {i \in 1..Len(adverts) :
                                        adverts[i].details = "lancom"}}

\* C23: the signal strength of every injected peer advertisement is an
\* integer: an integer rssi is passed on unchanged, an integer text is parsed,
\* an absent, null or unparseable rssi gives the default -70, the sentinel
\* -127, as integer or as text, gives -70; no rssi value makes the ingest
\* raise.
C23_RssiIsInteger ==
  /\ peer_rssi \subseteq Int
  /\ last.hook = "ingested" /\ last.measurements # <<>> =>
       /\ ~last.failed
       /\ peer_rssi = {expected_rssi(last.measurements[1].rssi)}

\* the sentinel arrived as a text and the advertisement carries the default
C23_Witness ==
  /\ last.hook = "ingested"
  /\ last.measurements # <<>>
  /\ last.measurements[1].rssi.t = "str"
  /\ last.measurements[1].rssi.s = <<"-","1","2","7">>
  /\ peer_rssi = {RSSI_DEFAULT}

(***************************************************************************)
(* Properties of the injection when the host rejects (SpecReject).         *)
(***************************************************************************)
\* the host's advertisement entry point raises for every advertisement of an
\* operation, or for none
AdvertFaults == {NoFaults, [advert |-> TRUE, cancel |-> {}, register |-> FALSE]}

\* access points report, timers fire and the user renames while the host
\* accepts or rejects the advertisements
NextReject ==
  \/ \E c \in {<<>>} : SetupEntry(c)
  \/ \E ms \in Measurements({1}) : \E f \in AdvertFaults :
       Webhook([deviceMac |-> MAC1_LOWER, measurements |-> ms], f)
  \/ \E d \in DOMAIN devices : \E n \in {NAME_OFFICE} : UserSetName(d, n)
  \/ \E f \in AdvertFaults : HandleEvent(f)
  \/ \E t \in timers : \E f \in AdvertFaults : TimerFire(t, f)
  \/ Tick

SpecReject == Init /\ [][NextReject]_vars

\* the advertisements of the last operation that no later one of the same
\* scanner and address replaced
latest_adverts(advs) ==
  {j \in 1..Len(advs) :
     \A k \in (j + 1)..Len(advs) :
       advs[k].scanner # advs[j].scanner \/ advs[k].address # advs[j].address}

\* C24: injection is best-effort: when the host rejects an advertisement,
\* nothing is raised, and the stored advertisement pair of the address, its
\* last-seen timestamp and the scanner's last-detection marker have been
\* updated all the same; the steps after the injection of a self-advertisement
\* still run (the scanner is marked and a refresh timer is pending).
C24_InjectionBestEffort ==
  /\ [](~last.failed)
  /\ [](\A j \in 1..Len(adverts) :
          adverts[j].details \in {"lancom_self", "lancom_self_rename"} =>
            /\ timers_of(adverts[j].scanner) # {}
            /\ adverts[j].details = "lancom_self" =>
                 objs[adverts[j].scanner].self_injected)
  /\ [][objs' # objs =>
          \A j \in latest_adverts(adverts') :
            LET o == adverts'[j].scanner
                a == adverts'[j].address
            IN  /\ a \in DOMAIN objs'[o].discovered_devices
                /\ objs'[o].discovered_devices[a] =
                     <<adverts'[j].name, adverts'[j].rssi>>
                /\ objs'[o].lancom_timestamps[a] = now'
                /\ objs'[o].last_detection_monotonic = now']_vars

\* the host rejected the self-advertisement and the peer advertisement of a
\* webhook, at a later time than the scanner's first detection
C24_Witness ==
  /\ last.hook = "ingested"
  /\ Len(adverts) = 2
  /\ \A j \in 1..Len(adverts) : ~adverts[j].delivered
  /\ last.prev # 0
  /\ now > 1
  /\ objs[last.ret].last_detection_monotonic = now
  /\ format_mac(PEER) \in DOMAIN objs[last.ret].discovered_devices

(***************************************************************************)
(* Properties of the re-registration (SpecRereg).                          *)
(***************************************************************************)
\* scanners are re-registered by the service and by the registry-update
\* handler, with and without a scanner before, while the cancel handle of a
\* registered scanner may raise
NextRereg ==
  \/ \E c \in {<<>>, <<MAC1_LOWER>>} : SetupEntry(c)
  \/ \E m \in {MAC2} : AddAp(m, NoFaults)
  \/ \E m \in {MAC1} : \E f \in CancelFaults : ForceScannerName(m, f)
  \/ \E m \in {MAC1} : RemoveScanner(m, NoFaults)
  \/ \E d \in DOMAIN devices : \E n \in {NAME_OFFICE} : UserSetName(d, n)
  \/ HandleEvent(NoFaults)
  \/ \E t \in timers : TimerFire(t, NoFaults)

SpecRereg == Init /\ [][NextRereg]_vars

\* C25: a step in which _re_register_scanner(mac) runs calls the cancel handle
\* of the previous registration of the MAC (if there is one) exactly once,
\* also when that call raises, and leaves the manager with exactly one scanner
\* and exactly one active host registration for the MAC: a scanner object
\* made in this step, with one self-advertisement injected and one refresh
\* timer pending; scanners, handles and registrations of other MACs are left
\* as they were.
C25_ReRegisterPostcondition ==
  [][last'.reregs = 1 =>
       LET new  == Len(objs')
           mac  == objs'[Len(objs')].mac_upper
           prev == IF mac \in DOMAIN scanners THEN scanners[mac] ELSE 0
       IN  /\ Len(objs') = Len(objs) + 1
           /\ DOMAIN scanners' = DOMAIN scanners \cup {mac}
           /\ DOMAIN cancel_callbacks' = DOMAIN scanners'
           /\ scanners'[mac] = new /\ cancel_callbacks'[mac] = new
           /\ {o \in registered' : objs'[o].mac_upper = mac} = {new}
           /\ prev # 0 => cancel_calls[prev] = 0 /\ cancel_calls'[prev] = 1
           /\ \A o \in 1..Len(objs) :
                o # prev => /\ cancel_calls'[o] = cancel_calls[o]
                            /\ (o \in registered') = (o \in registered)
           /\ cancel_calls'[new] = 0
           /\ objs'[new].self_injected
           /\ {j \in 1..Len(adverts') : adverts'[j].scanner = new} = {1}
           /\ Len(adverts') = 1 /\ adverts'[1].details = "lancom_self"
           /\ Cardinality({t \in timers' : t.owner = new}) = 1
           /\ \A m \in DOMAIN scanners \ {mac} :
                /\ scanners'[m] = scanners[m]
                /\ cancel_callbacks'[m] = cancel_callbacks[m]
                /\ objs'[scanners[m]] = objs[scanners[m]]]_vars

\* the service re-registered a MAC whose previous cancel handle raised
C25_Witness ==
  /\ last.op = "_re_register_scanner"
  /\ last.reregs = 1
  /\ last.prev # 0
  /\ last.prev \in last.raised
  /\ cancel_calls[last.prev] = 1
  /\ registered_for(last.mac) = {last.ret}

(***************************************************************************)
(* Registry events the handler ignores (SpecForeign).                      *)
(***************************************************************************)
\* entries that are not devices of this integration: an identifier of this
\* domain without the prefix, one with the prefix and two groups, and the
\* identifier of another integration
ForeignEntries ==
  {[identifiers |-> {i},
    connections |-> {},
    config_entries |-> {ENTRY_ID},
    name |-> NAME_LAB,
    name_by_user |-> <<>>] :
     i \in {<<DOMAIN_ID, MAC1>>,
            <<DOMAIN_ID, IdentPrefix \o <<"a","a","_","b","b">>>>,
            <<"hue", ident_of(MAC1)>>}}

InitForeign ==
  /\ InitManager
  /\ devices \in {<<e>> : e \in ForeignEntries}
  /\ next_dev = Len(devices) + 1

\* the action values of EVENT_DEVICE_REGISTRY_UPDATED
EventActions == {"create", "remove", "update"}

\* the bus delivers an EVENT_DEVICE_REGISTRY_UPDATED event that no write of
\* the model caused: any action, no device id (0), the id of an entry or an id
\* the registry does not hold
BusFire(action, id) ==
  /\ phase = "loaded"
  /\ Len(events) < 2
  /\ Finish(fire(World, action, id), [op |-> "async_fire", ret |-> id])
  /\ KeepTrack(World)
  /\ UNCHANGED <<phase, now, today>>

NextForeign ==
  \/ \E c \in {<<>>} : SetupEntry(c)
  \/ \E m \in {MAC1_DASH} : AddAp(m, NoFaults)
  \/ \E d \in DOMAIN devices : \E n \in {NAME_OFFICE} : UserSetName(d, n)
  \/ \E a \in EventActions : \E d \in 0..next_dev : BusFire(a, d)
  \/ HandleEvent(NoFaults)
  \/ \E t \in timers : TimerFire(t, NoFaults)

SpecForeign == InitForeign /\ [][NextForeign]_vars

\* the events handle_device_registry_update returns on before it reaches a
\* MAC: another action than "update", no device id, an id the registry does
\* not resolve, or an entry without an accepted identifier
ignored_event(ev) ==
  \/ ev.action # "update"
  \/ ev.device_id = 0
  \/ ev.device_id \notin DOMAIN devices
  \/ own_identifiers(devices[ev.device_id]) = {}

\* C26: a step in which handle_device_registry_update handles an event whose
\* action is not "update", that has no device id, whose id the registry does
\* not resolve, or whose entry has no identifier of this integration with the
\* prefix and six groups, changes neither the scanner map, the registration
\* handles, the host registrations, the scanner objects, the device registry
\* nor the pending timers, and injects nothing.
C26_IgnoredEventsChangeNothing ==
  [][(/\ last'.op = "handle_device_registry_update"
      /\ events # <<>>
      /\ ignored_event(Head(events)))
       => /\ UNCHANGED <<scanners, cancel_callbacks, registered, cancel_calls,
                         objs, devices, next_dev, timers>>
          /\ events' = Tail(events)
          /\ adverts' = <<>>
          /\ last'.writes = 0 /\ last'.reregs = 0]_vars

\* the handler has handled an event about an entry that is not a device of
\* this integration, while a scanner with a pending timer exists
C26_Witness ==
  /\ last.op = "handle_device_registry_update"
  /\ last.ret \in DOMAIN devices
  /\ own_identifiers(devices[last.ret]) = {}
  /\ devices[last.ret].name_by_user # <<>>
  /\ scanners # <<>>
  /\ timers # {}

(***************************************************************************)
(* Registry events about an owned device (SpecRename).                     *)
(***************************************************************************)
\* the user renames the device of an access point whose scanner exists or
\* has been removed
NextRename ==
  \/ \E c \in {<<>>} : SetupEntry(c)
  \/ \E m \in {MAC1_DASH} : AddAp(m, NoFaults)
  \/ \E m \in {MAC1} : RemoveScanner(m, NoFaults)
  \/ \E d \in DOMAIN devices :
       \E n \in {NAME_OFFICE, NAME_LAB, <<>>} : UserSetName(d, n)
  \/ HandleEvent(NoFaults)
  \/ \E t \in timers : TimerFire(t, NoFaults)

SpecRename == Init /\ [][NextRename]_vars

\* C27: a step in which handle_device_registry_update handles an update event
\* about an owned device re-registers the scanner of the device's MAC (once)
\* exactly when a persistent name of the registry changed in the step;
\* without such a change and with a scanner for the MAC it injects exactly
\* one "lancom_self_rename" self-advertisement through that scanner and keeps
\* the scanner object, the handle and the host registrations; without such a
\* change and without a scanner it creates no scanner and injects nothing.
C27_ReRegisterIffNameAligned ==
  [][(/\ last'.op = "handle_device_registry_update"
      /\ events # <<>>
      /\ ~ignored_event(Head(events)))
       => LET mac == mac_of_device(devices[Head(events).device_id])
              aligned ==
                \E d \in DOMAIN devices :
                  d \in DOMAIN devices' /\ devices'[d].name # devices[d].name
          IN  /\ last'.reregs = (IF aligned THEN 1 ELSE 0)
              /\ aligned =>
                   /\ Len(objs') = Len(objs) + 1
                   /\ scanners'[mac] = Len(objs')
                   /\ registered' = (registered \ {prev_of(mac)})
                                       \cup {Len(objs')}
              /\ (~aligned /\ mac \in DOMAIN scanners) =>
                   /\ Len(adverts') = 1
                   /\ adverts'[1].scanner = scanners[mac]
                   /\ adverts'[1].details = "lancom_self_rename"
                   /\ adverts'[1].address = mac
                   /\ Len(objs') = Len(objs)
                   /\ UNCHANGED <<scanners, cancel_callbacks, registered,
                                  cancel_calls>>
              /\ (~aligned /\ mac \notin DOMAIN scanners) =>
                   /\ adverts' = <<>>
                   /\ UNCHANGED <<scanners, cancel_callbacks, registered,
                                  cancel_calls, objs, timers>>]_vars

\* the handler has answered a rename that needed no alignment with one
\* "lancom_self_rename" advertisement of the existing scanner
C27_Witness ==
  /\ last.op = "handle_device_registry_update"
  /\ last.reregs = 0
  /\ last.ret \in DOMAIN devices
  /\ devices[last.ret].name_by_user = NAME_LAB
  /\ devices[last.ret].name = NAME_OFFICE
  /\ Len(adverts) = 1
  /\ adverts[1].details = "lancom_self_rename"
  /\ adverts[1].scanner \in registered

(***************************************************************************)
(* Registry writes of repeated calls (SpecRepeat).                         *)
(***************************************************************************)
\* a fresh installation, or a registry with one entry an earlier version
\* stored
InitStored ==
  /\ InitManager
  /\ devices \in {<<>>} \cup {<<e>> : e \in LegacyEntries}
  /\ next_dev = Len(devices) + 1

\* get_or_create_scanner and the webhook are called again and again for one
\* access point; nothing else changes the registry
NextRepeat ==
  \/ \E c \in {<<>>} : SetupEntry(c)
  \/ \E b \in {TRUE} : GetOrCreate(MAC1, b)
  \/ \E ms \in Measurements({0, 1}) :
       Webhook([deviceMac |-> MAC1_LOWER, measurements |-> ms], NoFaults)
  \/ HandleEvent(NoFaults)
  \/ \E t \in timers : TimerFire(t, NoFaults)

SpecRepeat == InitStored /\ [][NextRepeat]_vars

\* the entry of the MAC belongs to this integration entry and has the single
\* connection ("mac", lower-case MAC)
registered_exactly(w, mac_upper) ==
  LET ok(d) ==
        /\ d # 0
        /\ ENTRY_ID \in w.devices[d].config_entries
        /\ w.devices[d].connections = mac_connection_only(mac_upper)
  IN  ok(async_get_device(w, ident_of(mac_upper)))

\* _register_or_update_device called now establishes registered_exactly,
\* writes nothing when it already holds, and called once more writes nothing
register_or_update_idempotent(mac_upper) ==
  LET again(v) ==
        /\ registered_exactly(v, mac_upper)
        /\ _register_or_update_device(v, mac_upper).writes = v.writes
        /\ _register_or_update_device(v, mac_upper).devices = v.devices
      unchanged(v) == v.writes = 0 /\ v.devices = devices
  IN  /\ again(_register_or_update_device(World, mac_upper))
      /\ registered_exactly(World, mac_upper)
           => unchanged(_register_or_update_device(World, mac_upper))

\* C28: in every state _register_or_update_device(mac) leaves the entry of the
\* MAC associated with this integration entry and with the connection set
\* {("mac", lower-case MAC)}, writes nothing when the entry already has both,
\* and writes nothing when called a second time; a get_or_create_scanner call
\* with inject_self or a webhook for an access point whose scanner exists
\* performs no registry write.
C28_RegisterWritesOnlyOnMismatch ==
  /\ [](\A m \in {MAC1, MAC2} : register_or_update_idempotent(m))
  /\ [][(last'.op = "get_or_create_scanner" /\ last'.prev # 0)
         => last'.writes = 0 /\ devices' = devices]_vars

(***************************************************************************)
(* Properties of fix_all_names (SpecFix).                                  *)
(***************************************************************************)
\* users name their access points and the service cleans the names
NextFix ==
  \/ \E c \in {<<>>} : SetupEntry(c)
  \/ \E m \in {MAC1_DASH} : AddAp(m, NoFaults)
  \/ \E d \in DOMAIN devices :
       \E n \in {NAME_LAB, NAME_OFFICE_MAC, NAME_JOINED} : UserSetName(d, n)
  \/ FixAllNames
  \/ HandleEvent(NoFaults)
  \/ \E t \in timers : TimerFire(t, NoFaults)

SpecFix == Init /\ [][NextFix]_vars

\* the entries of this integration that have a user name
user_named == {d \in DOMAIN devices : /\ mac_of_device(devices[d]) # <<>>
                                       /\ devices[d].name_by_user # <<>>}

\* C29: a step in which fix_all_names runs replaces the user name of every
\* owned entry by its cleaned form, returns the number of names that
\* differed, and changes no entry without a user name; in the state it
\* leaves, every owned entry's user name is its own cleaned form and
\* fix_all_names run again changes nothing and returns 0.
C29_FixAllNamesConverges ==
  /\ [][last'.op = "fix_all_names" =>
          /\ DOMAIN devices' = DOMAIN devices
          /\ \A d \in DOMAIN devices :
               IF d \in user_named
                 THEN devices'[d] =
                        [devices[d] EXCEPT !.name_by_user =
                           clean_name(@, mac_of_device(devices[d]))]
                 ELSE devices'[d] = devices[d]
          /\ last'.ret =
               Cardinality({d \in user_named :
                  clean_name(devices[d].name_by_user,
                             mac_of_device(devices[d]))
                    # devices[d].name_by_user})]_vars
  /\ [](last.op = "fix_all_names" =>
          /\ \A d \in user_named :
               clean_name(devices[d].name_by_user, mac_of_device(devices[d]))
                 = devices[d].name_by_user
          /\ fix_all_names(World)[2] = 0
          /\ fix_all_names(World)[1].devices = devices)

(***************************************************************************)
(* Properties of the list parser (SpecParse).                              *)
(***************************************************************************)
\* "GG:HH:II:JJ:KK:LL": 17 characters, five colons, no hex digit
TOKEN_NO_HEX ==
  <<"G","G",":","H","H",":","I","I",":","J","J",":","K","K",":","L","L">>

\* "AA:BB": too few digits
TOKEN_SHORT == <<"A","A",":","B","B">>

\* the tokens of the configuration texts
ListTokens == {MAC1_LOWER, MAC1_DASH, MAC2, NAME_HEX, TOKEN_SHORT, TOKEN_NO_HEX}

\* the texts between the tokens: each separator, and a comma followed by a
\* space
ListGaps == {<<ListSeparators[i]>> : i \in 1..Len(ListSeparators)}
              \cup {<<",", " ">>}

\* configuration texts of one or two tokens
ApTexts ==
  ListTokens \cup {a \o g \o b : a \in ListTokens, g \in ListGaps, b \in ListTokens}

\* the integration is set up with a configuration text
NextParse ==
  \/ \E t \in ApTexts : SetupEntryText(t)
  \/ HandleEvent(NoFaults)
  \/ \E t \in timers : TimerFire(t, NoFaults)

SpecParse == Init /\ [][NextParse]_vars

\* six pairs of upper-case hex digits joined by colons
well_formed_mac(m) ==
  /\ Len(m) = 3 * MacGroups - 1
  /\ \A i \in 1..Len(m) :
       IF i % 3 = 0 THEN m[i] = ":"
       ELSE m[i] \in HexChars /\ upper_char(m[i]) = m[i]

\* the non-empty tokens of a text, whatever separates them
tokens_of(text) ==
  {strip(mac_items(text)[i]) : i \in 1..Len(mac_items(text))} \ {<<>>}

\* the text with every separator replaced by one of them
with_separator(text, sep) ==
  [i \in 1..Len(text) |->
     IF \E k \in 1..Len(ListSeparators) : ListSeparators[k] = text[i]
       THEN sep ELSE text[i]]

\* C30: the list normalize_input_mac_list returns for a text is sorted and
\* free of duplicates, every element of it is a well-formed canonical MAC,
\* its elements are the canonical forms of exactly the tokens that reduce to
\* 12 hex digits (a token of 17 characters with five colons and no hex digit
\* is discarded), and the same text with every separator replaced by a
\* comma, a semicolon, a newline or a space gives the same list.
C30_ParseListWellFormed ==
  [][last'.op = "normalize_input_mac_list" =>
       /\ \A i \in 1..Len(last'.ap_list) : \A j \in 1..Len(last'.ap_list) :
            i < j => str_less(last'.ap_list[i], last'.ap_list[j])
       /\ \A i \in 1..Len(last'.ap_list) : well_formed_mac(last'.ap_list[i])
       /\ {last'.ap_list[i] : i \in 1..Len(last'.ap_list)} =
            {pair_up(upper(filter_chars(t, HexChars))) :
               t \in {u \in tokens_of(last'.raw) :
                        Len(filter_chars(u, HexChars)) = MacHexLen}}
       /\ \A k \in 1..Len(ListSeparators) :
            normalize_input_mac_text(
              with_separator(last'.raw, ListSeparators[k])) = last'.ap_list]_vars

(***************************************************************************)
(* The two maps of the manager and the host registrations (SpecMaps).      *)
(***************************************************************************)
\* what the host may do to the calls of one operation: the cancel handle of
\* one registered scanner raises, async_register_scanner raises, or both
HostFaults ==
  {[advert |-> FALSE, cancel |-> c, register |-> r] :
     c \in {{}} \cup {{o} : o \in registered}, r \in BOOLEAN}

\* scanners come, are replaced and go while the host's calls may raise
NextMaps ==
  \/ \E c \in {<<>>} : SetupEntry(c)
  \/ \E m \in {MAC1_DASH, MAC2} : \E f \in HostFaults : AddAp(m, f)
  \/ \E m \in {MAC1} : \E f \in HostFaults : ForceScannerName(m, f)
  \/ \E m \in {MAC1} : \E f \in HostFaults : RemoveScanner(m, f)
  \/ \E d \in DOMAIN devices : \E n \in {NAME_OFFICE} : UserSetName(d, n)
  \/ \E f \in HostFaults : HandleEvent(f)
  \/ \E t \in timers : TimerFire(t, NoFaults)
  \/ \E f \in HostFaults : Unload(f)

SpecMaps == Init /\ [][NextMaps]_vars

\* C31: in every reachable state the scanner map and the map of cancel
\* handles have the same keys, the handle of a key is the handle of the
\* scanner of that key, no scanner object stands under two keys, the active
\* host registrations are exactly the scanner objects of the map, and no
\* cancel handle has been called twice; also when a cancel handle or
\* async_register_scanner raises.
C31_MapsAndRegistrationsAgree ==
  /\ DOMAIN scanners = DOMAIN cancel_callbacks
  /\ \A m \in DOMAIN scanners :
       /\ cancel_callbacks[m] = scanners[m]
       /\ objs[scanners[m]].mac_upper = m
  /\ \A m, n \in DOMAIN scanners : scanners[m] = scanners[n] => m = n
  /\ registered = {scanners[m] : m \in DOMAIN scanners}
  /\ \A o \in 1..Len(objs) : cancel_calls[o] <= 1

\* a re-registration whose async_register_scanner raised: the replaced
\* scanner has been cancelled once and the MAC has left both maps, while
\* another MAC keeps its scanner
C31_Witness ==
  /\ last.op = "_re_register_scanner"
  /\ last.failed
  /\ last.prev # 0
  /\ cancel_calls[last.prev] = 1
  /\ last.mac \notin DOMAIN scanners
  /\ scanners # <<>>

(***************************************************************************)
(* Scanners that left the manager (Spec).                                  *)
(***************************************************************************)
\* the scanner objects of the scanner map
in_map == {scanners[m] : m \in DOMAIN scanners}

\* C32: every pending refresh timer belongs to a scanner of the scanner map,
\* at most one refresh timer is pending per MAC, and no step injects an
\* advertisement through a scanner that is in the scanner map neither before
\* nor after the step (a scanner removed, replaced or unloaded stays silent).
C32_DiscardedScannerSilent ==
  /\ [](\A t \in timers : t.owner \in in_map)
  /\ [](\A t1, t2 \in timers :
          objs[t1.owner].mac_upper = objs[t2.owner].mac_upper => t1 = t2)
  /\ [][adverts' # adverts =>
          \A i \in 1..Len(adverts') :
            \/ adverts'[i].scanner \in in_map
            \/ adverts'[i].scanner \in {scanners'[m] : m \in DOMAIN scanners'}]_vars

(***************************************************************************)
(* The keys of the scanner map (SpecKeys).                                 *)
(***************************************************************************)
\* webhooks and services carry a MAC, a text too short for one, or a text of
\* the length of a MAC with five colons and no hex digit
NextKeys ==
  \/ \E c \in {<<>>} : SetupEntry(c)
  \/ \E m \in {MAC1_LOWER, TOKEN_SHORT} :
       Webhook([deviceMac |-> m, measurements |-> <<>>], NoFaults)
  \/ \E m \in {MAC1_DASH, TOKEN_SHORT, TOKEN_NO_HEX} : AddAp(m, NoFaults)
  \/ \E m \in {MAC1, TOKEN_SHORT} : ForceScannerName(m, NoFaults)
  \/ HandleEvent(NoFaults)
  \/ \E t \in timers : TimerFire(t, NoFaults)

SpecKeys == Init /\ [][NextKeys]_vars

\* C33: in every reachable state every key of the scanner map is a canonical
\* MAC (six pairs of upper-case hex digits joined by colons), and every
\* identifier of this integration in the registry is the identifier of a
\* canonical MAC: a text that does not reduce to 12 hex digits produces
\* neither a scanner nor a registry entry.
C33_KeysAreCanonicalMacs ==
  /\ \A m \in DOMAIN scanners : well_formed_mac(m)
  /\ \A d \in DOMAIN devices : \A i \in devices[d].identifiers :
       i[1] = DOMAIN_ID => well_formed_mac(mac_of_ident(i[2]))

(***************************************************************************)
(* The registry entries of the scanners (SpecOwned).                       *)
(***************************************************************************)
\* scanners are created and re-registered, for MACs with and without a
\* registry entry, and the user deletes devices
NextOwned ==
  \/ \E c \in {<<>>} : SetupEntry(c)
  \/ \E m \in {MAC1_DASH} : AddAp(m, NoFaults)
  \/ \E m \in {MAC1, MAC2} : ForceScannerName(m, NoFaults)
  \/ \E d \in DOMAIN devices : RemoveConfigEntryDevice(d)
  \/ HandleEvent(NoFaults)
  \/ \E t \in timers : TimerFire(t, NoFaults)

SpecOwned == InitStored /\ [][NextOwned]_vars

\* the registry devs has an entry with the identifier of the MAC that belongs
\* to this integration entry
has_owned_entry(devs, mac_upper) ==
  \E d \in DOMAIN devs :
    /\ <<DOMAIN_ID, ident_of(mac_upper)>> \in devs[d].identifiers
    /\ ENTRY_ID \in devs[d].config_entries

\* C34: after every get_or_create_scanner and every _re_register_scanner,
\* each MAC of the scanner map has a registry entry with the identifier of
\* the MAC that belongs to this integration entry; also when the MAC had
\* neither scanner nor entry before a re-registration, and when the entry of
\* an existing scanner had been deleted before get_or_create_scanner.
C34_ScannerHasRegistryEntry ==
  [][last'.op \in {"get_or_create_scanner", "_re_register_scanner"} =>
       \A m \in DOMAIN scanners' : has_owned_entry(devices', m)]_vars

(***************************************************************************)
(* The cascade of registry events (SpecCascade).                           *)
(***************************************************************************)
\* the user edits the name of a device while a scanner object can still be
\* made for the re-registration the edit may lead to
UserEdit(d, name) ==
  /\ Len(objs) < MaxScanners
  /\ UserSetName(d, name)

\* a registry as an earlier run left it, a scanner for the access point,
\* and user edits; the event loop delivers every registry event
NextCascade ==
  \/ \E c \in {<<>>, <<MAC1_LOWER>>} : SetupEntry(c)
  \/ \E m \in {MAC1_DASH} : AddAp(m, NoFaults)
  \/ \E d \in DOMAIN devices :
       \E n \in {<<>>, NAME_OFFICE, NAME_FLUR} : UserEdit(d, n)
  \/ HandleEvent(NoFaults)
  \/ \E t \in timers : TimerFire(t, NoFaults)

\* HandleEvent(NoFaults) can take a step: the guard of the action
deliverable ==
  /\ phase = "loaded"
  /\ events # <<>>
  /\ LET fits(w) ==
           /\ Len(w.objs) <= MaxScanners
           /\ \A i \in 1..Len(w.objs) : w.objs[i].packets_today <= MaxPackets
     IN  fits(handle_device_registry_update(
                [World EXCEPT !.events = Tail(@), !.faults = NoFaults],
                Head(events)))

\* the event loop handles a waiting event: weak fairness of
\* HandleEvent(NoFaults), written out with the action's guard
SpecCascade ==
  /\ InitKeep
  /\ [][NextCascade]_vars
  /\ ([]<>(~deliverable) \/ []<><<HandleEvent(NoFaults)>>_vars)

\* C35: the registry events waiting at any time are all delivered (the
\* cascade of events caused by the handler's own writes ends); once the
\* events are delivered, handling one more update event for the device of
\* the last event writes nothing to the registry; one handling writes at
\* most once and re-registers at most once, and of two handlings in a row
\* at most one writes (a default-name write and an alignment write never
\* alternate).
C35_EventCascadeEnds ==
  /\ (events # <<>>) ~> (events = <<>>)
  /\ [](/\ last.op = "handle_device_registry_update"
         /\ events = <<>>
         /\ last.ret \in DOMAIN devices
         => handle_device_registry_update(
              World, [action |-> "update", device_id |-> last.ret]).writes = 0)
  /\ [][last'.op = "handle_device_registry_update" =>
          /\ last'.writes <= 1
          /\ last'.reregs <= 1
          /\ (last.op = "handle_device_registry_update" /\ last.writes > 0)
               => last'.writes = 0]_vars

\* a user edit has been answered by the alignment write and one
\* re-registration, and the events it caused are delivered
C35_Witness ==
  /\ last.op = "handle_device_registry_update"
  /\ events = <<>>
  /\ last.ret \in DOMAIN devices
  /\ devices[last.ret].name_by_user = NAME_FLUR
  /\ devices[last.ret].name = NAME_FLUR
  /\ track.reregs = 1

====
